---- MODULE Spec2Model ----
(***************************************************************************)
(* Agent lifecycle of the Bedrock conversation integration:                *)
(* StrandsAgentWrapper (strands_wrapper.py) with its two per-user caches,  *)
(* the ephemeral default agent, the forced rebuild after a corrupted       *)
(* transcript, and the administrative cache clears.                        *)
(*                                                                         *)
(* Each request is a coroutine on the single event loop.  An action is the *)
(* code that runs between two suspension points (an awaited executor job   *)
(* or an awaited backend call): the job's outcome is delivered and the     *)
(* coroutine runs on, synchronously, up to its next await.  The effects of *)
(* an executor job (reading or appending the transcript) take place when   *)
(* its result is delivered.                                                *)
(***************************************************************************)
EXTENDS Integers, Sequences, FiniteSets, TLC

None == "None"
\* Python's None where an object (agent, model, session manager, message) is expected
NoObject == [id |-> 0]
\* no result yet
NoResult == [kind |-> "none"]

\* The generate_response calls of one run; they may overlap.
Procs == {"r1", "r2"}
\* user ids Home Assistant passes in the request context.
CallerUsers == {"u1"}
Convs == {"c1", "c2"}
\* the request context async_process makes for each request (as_llm_context)
LLMContexts == {"ctx1", "ctx2"}
\* total number of administrative cache clears of one run
MaxClears == 1

UserIds == CallerUsers \cup {"entry1", "default_user"}
\* a Python dict takes any string as key
CacheKeys == UserIds \cup Convs

session_storage_path == ".storage/bedrock_agent_sessions"
memory_storage_path == ".storage/bedrock_agent_memory"
model_id == "configured_model"
base_prompt == "system_prompt"

mem0_memory == [name |-> "mem0_memory"]

\* Bedrock error payloads; a message is the sequence of its phrases.
TurnRolesPhrase == "cannot be provided in the same turn"
ErrorCodes == {"ValidationException", "ThrottlingException"}
TurnRolesMessage == <<"toolUse and text ", TurnRolesPhrase>>
ClientErrors ==
  { [Code |-> "ValidationException", Message |-> TurnRolesMessage],
    [Code |-> "ValidationException", Message |-> <<"Malformed input request">>],
    [Code |-> "ThrottlingException", Message |-> <<"Rate exceeded">>] }

\* Replies of the agent: AgentResult.message.content is a list of blocks.
Responses ==
  { [message |-> [content |-> <<[text |-> <<"Hello">>], [toolUse |-> "t1"], [text |-> <<"there">>]>>]] }

VARIABLES
  \* wrapper configuration, fixed by __init__
  user_id, enable_memory, mem0_available, enable_ha_control, apis, tools,
  \* the storage directories that exist once __init__ is over
  directories,
  \* the wrapper's caches
  agent_cache, session_managers, default_agent,
  \* persisted data
  session_files, mem0_store,
  \* the coroutines: position and locals of generate_response / get_agent_with_memory
  pc, conversation_id, llm_context, effective_user_id,
  agent, bedrock_model, session_manager, retrying, result,
  \* history of a request: what it built and invoked
  built, invoked,
  \* the operation that acted last, and what a request that started right after a
  \* clear_user_cache of its user found
  last_op, after_clear,
  \* number of cache clears made
  nclears,
  \* one dispatch tool (ha_control_tool.py): the arguments create_ha_control_tool got,
  \* its HAToolRegistry, the position of the load or of the dispatch
  reg_apis, reg_llm_context, api_instances, tools_by_name, reg_pc, load_index,
  \* history of the load: whether each provider, in order, gave its instance
  instantiated,
  \* the running or last call of homeassistant_control: its arguments, the calls it
  \* made of the handlers, what it returned
  call, handler_calls, tool_result,
  \* text extraction on its own: a reply of the agent and the text taken from it
  agent_result, reply,
  \* one call of the cognitive task service (services.py): its position, the call
  \* data, the model id handed to get_simple_agent, the model handle and the agent
  \* built, the prompt content so far, the position in the image lists, the agent
  \* calls made, and what the call returned or raised
  task_pc, call_data, param_model_id, simple_model, simple_agent, prompt_content,
  image_index, agent_calls, service_response

cfgvars == <<user_id, enable_memory, mem0_available, enable_ha_control, apis, tools,
             directories>>
cachevars == <<agent_cache, session_managers, default_agent>>
diskvars == <<session_files, mem0_store>>
locals == <<conversation_id, llm_context, effective_user_id,
            agent, bedrock_model, session_manager, retrying>>
wrappervars == <<cfgvars, cachevars, diskvars, pc, locals, result, built, invoked,
                 last_op, after_clear, nclears>>
registryvars == <<reg_apis, reg_llm_context, api_instances, tools_by_name, reg_pc,
                  load_index, instantiated>>
callvars == <<call, handler_calls, tool_result>>
registryvars_but_pc == <<reg_apis, reg_llm_context, api_instances, tools_by_name,
                         load_index, instantiated>>
replyvars == <<agent_result, reply>>
\* what no step of the wrapper touches
taskvars == <<task_pc, call_data, param_model_id, simple_model, simple_agent,
              prompt_content, image_index, agent_calls, service_response>>
elsewhere == <<registryvars, callvars, replyvars, taskvars>>
vars == <<wrappervars, elsewhere>>

\* generic helpers
Set(f, p, v) == [f EXCEPT ![p] = v]
Range(s) == {s[i] : i \in DOMAIN s}
\* substring test of Python's "phrase in message"
Contains(message, phrase) == \E i \in DOMAIN message : message[i] = phrase
\* Python's "a or b" on an optional string
OrElse(a, b) == IF a # None THEN a ELSE b

(***************************************************************************)
(* Pure parts of StrandsAgentWrapper                                       *)
(***************************************************************************)

\* the cache keyed by conversation, as before agents were shared per user
CacheKey_conversation(conv, uid) == conv

\* get_agent_with_memory: cache_key = user_id
CacheKey(conv, uid) == uid

\* _create_bedrock_model: BedrockModel(model_id=self.model_id, streaming=False)
BedrockModel == [model_id |-> model_id, streaming |-> FALSE]

\* the session opened under the wrapper's user id instead of the request's
FileSessionManager_wrapper_user(id, uid) ==
  [id |-> id, session_id |-> user_id, storage_dir |-> session_storage_path]

\* FileSessionManager(session_id=user_id, storage_dir=self.session_storage_path)
FileSessionManager(id, uid) ==
  [id |-> id, session_id |-> uid, storage_dir |-> session_storage_path]

\* the test that does not ask for a request context
has_ha_control_without_context(ctx) == enable_ha_control /\ apis # <<>>

\* "self.enable_ha_control and self.apis and llm_context"
has_ha_control(ctx) == enable_ha_control /\ apis # <<>> /\ ctx # None

\* the dispatch tool create_ha_control_tool returns, bound to the context it was built with
ha_tool(ctx) == [name |-> "homeassistant_control", llm_context |-> ctx]

\* memory instructions that always name the wrapper's user
get_enhanced_system_prompt_wrapper_user(uid, has_ha) ==
  <<[part |-> "base", text |-> base_prompt]>>
  \o (IF enable_memory
      THEN <<[part |-> "memory", user_id |-> user_id]>>
      ELSE <<>>)
  \o (IF has_ha THEN <<[part |-> "ha_control"]>> ELSE <<>>)

\* _get_enhanced_system_prompt: base prompt + memory instructions + control instructions
get_enhanced_system_prompt(uid, has_ha) ==
  <<[part |-> "base", text |-> base_prompt]>>
  \o (IF enable_memory
      THEN <<[part |-> "memory", user_id |-> OrElse(uid, user_id)]>>
      ELSE <<>>)
  \o (IF has_ha THEN <<[part |-> "ha_control"]>> ELSE <<>>)

\* the signature test without the message test
IsTurnRolesError_code_only(e) == e.Code = "ValidationException"

\* generate_response: the signature that triggers the forced rebuild
IsTurnRolesError(e) ==
  e.Code = "ValidationException" /\ Contains(e.Message, TurnRolesPhrase)

\* generate_response: raise HomeAssistantError("Amazon Bedrock Error: " + quoted Message)
HomeAssistantError(e) ==
  [kind |-> "HomeAssistantError",
   args |-> <<"Amazon Bedrock Error: ", "'">> \o e.Message \o <<"'">>,
   cause |-> e]

\* an exception generate_response does not catch
RaisedException == [kind |-> "Exception"]

\* str(response)
Str(response) == <<[str |-> response]>>

RECURSIVE JoinText(_)
JoinText(blocks) ==
  IF blocks = <<>> THEN <<>>
  ELSE (IF "text" \in DOMAIN Head(blocks) THEN Head(blocks).text ELSE <<>>)
       \o JoinText(Tail(blocks))

\* a text extraction that stops at the first text block
ExtractText_first_text_only(response) ==
  IF "message" \in DOMAIN response /\ response.message # NoObject
  THEN LET content_blocks == IF "content" \in DOMAIN response.message
                              THEN response.message.content ELSE <<>>
           text_parts == SelectSeq(content_blocks, LAMBDA b : "text" \in DOMAIN b)
       IN IF text_parts # <<>> THEN Head(text_parts).text ELSE Str(response)
  ELSE Str(response)

\* generate_response: text of the reply
ExtractText(response) ==
  IF "message" \in DOMAIN response /\ response.message # NoObject
  THEN LET content_blocks == IF "content" \in DOMAIN response.message
                              THEN response.message.content ELSE <<>>
           text_parts == SelectSeq(content_blocks, LAMBDA b : "text" \in DOMAIN b)
       IN IF text_parts # <<>> THEN JoinText(content_blocks) ELSE Str(response)
  ELSE Str(response)

\* every request belongs to a conversation of its own
ConvOf(p) == IF p = "r1" THEN "c1" ELSE "c2"
\* every request comes with a context of its own
CtxOf(p) == IF p = "r1" THEN "ctx1" ELSE "ctx2"
\* the order in which the requests arrive
Serial(p) == IF p = "r1" THEN 1 ELSE 2
\* identity of the k-th object request p creates in its current round (a request
\* creates at most one session manager and one agent per call of get_agent_with_memory)
NewId(p, k) == 10 * Serial(p) + (IF retrying[p] THEN 2 ELSE 0) + k

\* the executor job chosen on the memory switch alone
InvokePath_memory_only(conv) ==
  IF enable_memory THEN "executor_job" ELSE "invoke_async"

\* generate_response: executor job when memory is on and the call is session-backed
InvokePath(conv) ==
  IF enable_memory /\ conv # None THEN "executor_job" ELSE "invoke_async"

\* what a suspended request waits for: a job handed to the worker pool with
\* hass.async_add_executor_job, or a coroutine awaited on the event loop, and the
\* object the job or coroutine makes
Awaited(label) ==
  CASE label \in {"create_model", "default_model"} ->
         [on |-> "executor", makes |-> "BedrockModel"]
    [] label = "create_session" -> [on |-> "executor", makes |-> "FileSessionManager"]
    [] label \in {"create_ha_tool", "default_ha_tool"} ->
         [on |-> "event_loop", makes |-> "homeassistant_control"]
    [] label = "create_agent" -> [on |-> "executor", makes |-> "Agent"]
    [] label = "executor_job" -> [on |-> "executor", makes |-> "AgentResult"]
    [] label = "invoke_async" -> [on |-> "event_loop", makes |-> "AgentResult"]
    [] OTHER -> [on |-> "none", makes |-> "none"]

\* what an agent invocation can come back with
Outcomes ==
  [kind : {"ok"}, value : Responses]
  \cup [kind : {"ClientError"}, value : ClientErrors]
  \cup {[kind |-> "Exception", value |-> None]}

(***************************************************************************)
(* Initial state: StrandsAgentWrapper.__init__, no request running         *)
(***************************************************************************)
\* Constructor arguments and import outcome the wrapper is created with: long-term
\* memory on, off by option and off by the missing dependency; device control on, off
\* by option and off for want of an API; user_id given and not given; os.makedirs
\* going through and raising OSError.
Configurations ==
  { [user_id |-> None, enable_memory |-> TRUE, mem0_available |-> TRUE,
     enable_ha_control |-> TRUE, apis |-> <<"assist">>, makedirs |-> "ok"],
    [user_id |-> "entry1", enable_memory |-> TRUE, mem0_available |-> TRUE,
     enable_ha_control |-> FALSE, apis |-> <<"assist">>, makedirs |-> "ok"],
    [user_id |-> "entry1", enable_memory |-> FALSE, mem0_available |-> TRUE,
     enable_ha_control |-> TRUE, apis |-> <<"assist">>, makedirs |-> "ok"],
    [user_id |-> None, enable_memory |-> TRUE, mem0_available |-> FALSE,
     enable_ha_control |-> TRUE, apis |-> <<>>, makedirs |-> "OSError"] }

\* os.makedirs(path, exist_ok=True) inside try / except OSError: the directory is
\* there afterwards unless OSError was raised, which is logged and nothing more
makedirs(existing, path, outcome) ==
  IF outcome = "ok" THEN existing \cup {path} ELSE existing

\* __init__: _configure_mem0_credentials when memory is on, then the session directory
makedirs_init(memory_on, outcome) ==
  makedirs(IF memory_on THEN makedirs({}, memory_storage_path, outcome) ELSE {},
           session_storage_path, outcome)

StrandsAgentWrapper_init ==
  /\ \E c \in Configurations :
       /\ user_id = OrElse(c.user_id, "default_user")
       /\ mem0_available = c.mem0_available
       /\ enable_memory = (c.enable_memory /\ c.mem0_available)
       /\ enable_ha_control = c.enable_ha_control
       /\ apis = c.apis
       /\ directories = makedirs_init(c.enable_memory /\ c.mem0_available, c.makedirs)
  /\ tools = IF enable_memory THEN <<mem0_memory>> ELSE <<>>
  /\ agent_cache = [k \in CacheKeys |-> NoObject]
  /\ session_managers = [k \in CacheKeys |-> NoObject]
  /\ default_agent = NoObject

\* no request has been made
RequestsIdle ==
  /\ session_files = [u \in UserIds |-> 0]
  /\ mem0_store = 0
  /\ pc = [p \in Procs |-> "idle"]
  /\ conversation_id = [p \in Procs |-> None]
  /\ llm_context = [p \in Procs |-> None]
  /\ effective_user_id = [p \in Procs |-> None]
  /\ agent = [p \in Procs |-> NoObject]
  /\ bedrock_model = [p \in Procs |-> NoObject]
  /\ session_manager = [p \in Procs |-> NoObject]
  /\ retrying = [p \in Procs |-> FALSE]
  /\ result = [p \in Procs |-> NoResult]
  /\ built = [p \in Procs |-> 0]
  /\ invoked = [p \in Procs |-> <<>>]
  /\ last_op = <<"init">>
  /\ after_clear = [p \in Procs |-> NoObject]
  /\ nclears = 0

\* the dispatch tool and the text extraction, when the model follows the wrapper only
NoRegistry ==
  /\ reg_apis = <<>>
  /\ reg_llm_context = None
  /\ api_instances = {}
  /\ tools_by_name = <<>>
  /\ reg_pc = "none"
  /\ load_index = 0
  /\ instantiated = <<>>
  /\ call = NoObject
  /\ handler_calls = <<>>
  /\ tool_result = NoResult

NoReply ==
  /\ agent_result = NoObject
  /\ reply = NoResult

\* the cognitive task service has not been called
NoTask ==
  /\ task_pc = "idle"
  /\ call_data = NoObject
  /\ param_model_id = None
  /\ simple_model = NoObject
  /\ simple_agent = NoObject
  /\ prompt_content = <<>>
  /\ image_index = 0
  /\ agent_calls = <<>>
  /\ service_response = NoResult

Init ==
  /\ StrandsAgentWrapper_init
  /\ RequestsIdle
  /\ NoRegistry
  /\ NoReply
  /\ NoTask

\* the request ends: generate_response returns text, or raises; its locals die
Finish(p, res) ==
  /\ pc' = Set(pc, p, "done")
  /\ result' = Set(result, p, res)
  /\ llm_context' = Set(llm_context, p, None)
  /\ agent' = Set(agent, p, NoObject)
  /\ bedrock_model' = Set(bedrock_model, p, NoObject)
  /\ session_manager' = Set(session_manager, p, NoObject)

\* the request goes on to its next suspension point
Goto(p, label) ==
  /\ pc' = Set(pc, p, label)
  /\ UNCHANGED <<result, llm_context>>

(***************************************************************************)
(* get_agent_with_memory, from its entry to its first suspension: the      *)
(* cache lookup.  cache is the agent cache as the caller left it, cur the  *)
(* caller's local agent.                                                   *)
(***************************************************************************)
get_agent_with_memory(p, cache, conv, uid, cur) ==
  LET cache_key == CacheKey(conv, uid) IN
  IF cache[cache_key] # NoObject
  THEN /\ agent' = Set(agent, p, cache[cache_key])
       /\ pc' = Set(pc, p, IF retrying'[p] THEN "executor_job" ELSE InvokePath(conv))
  ELSE /\ agent' = Set(agent, p, cur)
       /\ pc' = Set(pc, p, "create_model")

\* history: the request starts right after clear_user_cache(uid); what the clear
\* evicted and what is persisted then
AfterClear(uid) ==
  IF last_op[1] = "clear_user_cache" /\ last_op[2] = uid
  THEN [id |-> 1, agent |-> last_op[3], session_manager |-> last_op[4],
        messages |-> session_files[uid]]
  ELSE NoObject

\* the caller's user id ignored
EffectiveUserId_wrapper_only(cuid) == user_id

\* generate_response: effective_user_id = context_user_id or self.user_id
EffectiveUserId(cuid) == OrElse(cuid, user_id)

(***************************************************************************)
(* generate_response is called: up to the first await                      *)
(***************************************************************************)
generate_response(p, conv, cuid, ctx) ==
  /\ pc[p] = "idle"
  /\ p = "r2" => pc["r1"] # "idle"
  /\ conv \in {None, ConvOf(p)}
  /\ ctx \in {None, CtxOf(p)}
  /\ conversation_id' = Set(conversation_id, p, conv)
  /\ llm_context' = Set(llm_context, p, ctx)
  /\ retrying' = retrying
  /\ IF conv # None
     THEN /\ effective_user_id' = Set(effective_user_id, p, EffectiveUserId(cuid))
          /\ after_clear' = Set(after_clear, p, AfterClear(EffectiveUserId(cuid)))
          /\ get_agent_with_memory(p, agent_cache, conv, EffectiveUserId(cuid), NoObject)
     ELSE /\ effective_user_id' = Set(effective_user_id, p, None)
          /\ after_clear' = Set(after_clear, p, NoObject)
          /\ IF default_agent = NoObject
             THEN /\ agent' = Set(agent, p, NoObject)
                  /\ pc' = Set(pc, p, "default_model")
             ELSE /\ agent' = Set(agent, p, default_agent)
                  /\ pc' = Set(pc, p, InvokePath(conv))
  /\ last_op' = <<"request">>
  /\ UNCHANGED <<elsewhere, cfgvars, cachevars, diskvars, bedrock_model, session_manager, result,
                 built, invoked, nclears>>

\* get_agent_with_memory after the session manager is known: the dispatch tool, or the agent job
after_session_manager(p) ==
  Goto(p, IF has_ha_control(llm_context[p]) THEN "create_ha_tool" ELSE "create_agent")

(***************************************************************************)
(* get_agent_with_memory: _create_bedrock_model comes back, then           *)
(* _get_session_manager up to its executor job                             *)
(***************************************************************************)
create_bedrock_model_done(p, ok) ==
  /\ pc[p] = "create_model"
  /\ IF ok
     THEN /\ bedrock_model' = Set(bedrock_model, p, BedrockModel)
          /\ IF session_managers[effective_user_id[p]] = NoObject
             THEN /\ Goto(p, "create_session")
                  /\ UNCHANGED session_manager
             ELSE /\ session_manager' =
                       Set(session_manager, p, session_managers[effective_user_id[p]])
                  /\ after_session_manager(p)
          /\ UNCHANGED agent
     ELSE Finish(p, RaisedException)
  /\ last_op' = <<"request">>
  /\ UNCHANGED <<elsewhere, cfgvars, cachevars, diskvars, conversation_id, effective_user_id,
                 retrying, built, invoked, after_clear, nclears>>

(***************************************************************************)
(* _get_session_manager: the FileSessionManager job comes back             *)
(***************************************************************************)
create_session_manager_done(p, ok) ==
  /\ pc[p] = "create_session"
  /\ IF ok
     THEN /\ session_managers' =
               [session_managers EXCEPT ![effective_user_id[p]] =
                   FileSessionManager(NewId(p, 1), effective_user_id[p])]
          /\ session_manager' =
               Set(session_manager, p, session_managers'[effective_user_id[p]])
          /\ after_session_manager(p)
          /\ UNCHANGED <<agent, bedrock_model>>
     ELSE /\ Finish(p, RaisedException)
          /\ UNCHANGED session_managers
  /\ last_op' = <<"request">>
  /\ UNCHANGED <<elsewhere, cfgvars, agent_cache, default_agent, diskvars, conversation_id,
                 effective_user_id, retrying, built, invoked, after_clear, nclears>>

(***************************************************************************)
(* get_agent_with_memory: create_ha_control_tool comes back                *)
(***************************************************************************)
create_ha_control_tool_done(p, ok) ==
  /\ pc[p] = "create_ha_tool"
  /\ IF ok
     THEN /\ Goto(p, "create_agent")
          /\ UNCHANGED <<agent, bedrock_model, session_manager>>
     ELSE Finish(p, RaisedException)
  /\ last_op' = <<"request">>
  /\ UNCHANGED <<elsewhere, cfgvars, cachevars, diskvars, conversation_id, effective_user_id,
                 retrying, built, invoked, after_clear, nclears>>

\* the Agent get_agent_with_memory constructs for request p
SessionAgent(p) ==
  [id |-> NewId(p, 2),
   agent_id |-> effective_user_id[p],
   model |-> bedrock_model[p],
   tools |-> tools \o (IF has_ha_control(llm_context[p])
                       THEN <<ha_tool(llm_context[p])>> ELSE <<>>),
   system_prompt |-> get_enhanced_system_prompt(effective_user_id[p],
                                                has_ha_control(llm_context[p])),
   session_manager |-> session_manager[p],
   messages |-> session_files[session_manager[p].session_id]]

\* the Agent job comes back and the cache is checked again: the first writer wins
create_agent_done_first_write_wins(p, ok) ==
  /\ pc[p] = "create_agent"
  /\ IF ok
     THEN /\ LET key == CacheKey(conversation_id[p], effective_user_id[p])
                 hit == agent_cache[key] # NoObject
             IN /\ agent_cache' = IF hit THEN agent_cache
                                  ELSE [agent_cache EXCEPT ![key] = SessionAgent(p)]
                /\ agent' = Set(agent, p, agent_cache'[key])
                /\ built' = Set(built, p, IF hit THEN built[p] ELSE built[p] + 1)
          /\ Goto(p, IF retrying[p] THEN "executor_job"
                     ELSE InvokePath(conversation_id[p]))
          /\ UNCHANGED <<bedrock_model, session_manager>>
     ELSE /\ Finish(p, RaisedException)
          /\ UNCHANGED <<agent_cache, built>>
  /\ last_op' = <<"request">>
  /\ UNCHANGED <<elsewhere, cfgvars, session_managers, default_agent, diskvars, conversation_id,
                 effective_user_id, retrying, invoked, after_clear, nclears>>

\* the Agent job comes back; a failed job drops the user's cache entry
create_agent_done_evicting_on_failure(p, ok) ==
  /\ pc[p] = "create_agent"
  /\ IF ok
     THEN /\ agent_cache' =
               [agent_cache EXCEPT
                  ![CacheKey(conversation_id[p], effective_user_id[p])] = SessionAgent(p)]
          /\ agent' = Set(agent, p, SessionAgent(p))
          /\ built' = Set(built, p, built[p] + 1)
          /\ Goto(p, IF retrying[p] THEN "executor_job"
                     ELSE InvokePath(conversation_id[p]))
          /\ UNCHANGED <<bedrock_model, session_manager>>
     ELSE /\ Finish(p, RaisedException)
          /\ agent_cache' =
               [agent_cache EXCEPT
                  ![CacheKey(conversation_id[p], effective_user_id[p])] = NoObject]
          /\ UNCHANGED built
  /\ last_op' = <<"request">>
  /\ UNCHANGED <<elsewhere, cfgvars, session_managers, default_agent, diskvars, conversation_id,
                 effective_user_id, retrying, invoked, after_clear, nclears>>

(***************************************************************************)
(* get_agent_with_memory: the Agent job comes back; the agent is cached    *)
(* and generate_response goes on to call it                                *)
(***************************************************************************)
create_agent_done(p, ok) ==
  /\ pc[p] = "create_agent"
  /\ IF ok
     THEN /\ agent_cache' =
               [agent_cache EXCEPT
                  ![CacheKey(conversation_id[p], effective_user_id[p])] = SessionAgent(p)]
          /\ agent' = Set(agent, p, SessionAgent(p))
          /\ built' = Set(built, p, built[p] + 1)
          /\ Goto(p, IF retrying[p] THEN "executor_job"
                     ELSE InvokePath(conversation_id[p]))
          /\ UNCHANGED <<bedrock_model, session_manager>>
     ELSE /\ Finish(p, RaisedException)
          /\ UNCHANGED <<agent_cache, built>>
  /\ last_op' = <<"request">>
  /\ UNCHANGED <<elsewhere, cfgvars, session_managers, default_agent, diskvars, conversation_id,
                 effective_user_id, retrying, invoked, after_clear, nclears>>

\* a default agent that starts from the wrapper's tool list, as the session-backed one
DefaultAgent_with_wrapper_tools(p, model, ctx) ==
  [id |-> NewId(p, 2),
   agent_id |-> None,
   model |-> model,
   tools |-> tools \o (IF has_ha_control(ctx) THEN <<ha_tool(ctx)>> ELSE <<>>),
   system_prompt |-> get_enhanced_system_prompt(None, has_ha_control(ctx)),
   session_manager |-> NoObject,
   messages |-> 0]

\* the Agent generate_response constructs when no conversation id is given
DefaultAgent(p, model, ctx) ==
  [id |-> NewId(p, 2),
   agent_id |-> None,
   model |-> model,
   tools |-> IF has_ha_control(ctx) THEN <<ha_tool(ctx)>> ELSE <<>>,
   system_prompt |-> get_enhanced_system_prompt(None, has_ha_control(ctx)),
   session_manager |-> NoObject,
   messages |-> 0]

\* generate_response: self.agent = Agent(...); agent = self.agent; then the call
build_default_agent(p, model) ==
  /\ default_agent' = DefaultAgent(p, model, llm_context[p])
  /\ agent' = Set(agent, p, default_agent')
  /\ built' = Set(built, p, built[p] + 1)
  /\ Goto(p, InvokePath(conversation_id[p]))

(***************************************************************************)
(* generate_response without conversation id: _create_bedrock_model comes  *)
(* back                                                                    *)
(***************************************************************************)
default_model_done(p, ok) ==
  /\ pc[p] = "default_model"
  /\ IF ok
     THEN /\ bedrock_model' = Set(bedrock_model, p, BedrockModel)
          /\ IF has_ha_control(llm_context[p])
             THEN /\ Goto(p, "default_ha_tool")
                  /\ UNCHANGED <<default_agent, agent, built>>
             ELSE build_default_agent(p, BedrockModel)
          /\ UNCHANGED session_manager
     ELSE /\ Finish(p, RaisedException)
          /\ UNCHANGED <<default_agent, built>>
  /\ last_op' = <<"request">>
  /\ UNCHANGED <<elsewhere, cfgvars, agent_cache, session_managers, diskvars, conversation_id,
                 effective_user_id, retrying, invoked, after_clear, nclears>>

(***************************************************************************)
(* generate_response without conversation id: create_ha_control_tool comes *)
(* back                                                                    *)
(***************************************************************************)
default_ha_tool_done(p, ok) ==
  /\ pc[p] = "default_ha_tool"
  /\ IF ok
     THEN /\ build_default_agent(p, bedrock_model[p])
          /\ UNCHANGED <<bedrock_model, session_manager>>
     ELSE /\ Finish(p, RaisedException)
          /\ UNCHANGED <<default_agent, built>>
  /\ last_op' = <<"request">>
  /\ UNCHANGED <<elsewhere, cfgvars, agent_cache, session_managers, diskvars, conversation_id,
                 effective_user_id, retrying, invoked, after_clear, nclears>>

\* what a completed agent call leaves behind: one more turn in the transcript of the
\* agent's session, and possibly a memory stored through the mem0 tool
AgentCall(a, out, stored) ==
  /\ stored => (out.kind = "ok" /\ mem0_memory \in Range(a.tools))
  /\ session_files' =
       IF out.kind = "ok" /\ a.session_manager # NoObject
       THEN [session_files EXCEPT ![a.session_manager.session_id] = @ + 1]
       ELSE session_files
  /\ mem0_store' = IF stored THEN mem0_store + 1 ELSE mem0_store

\* a forced rebuild that empties both caches
forced_rebuild_clearing_all(p) ==
  /\ retrying' = Set(retrying, p, TRUE)
  /\ agent_cache' = [k \in CacheKeys |-> NoObject]
  /\ session_managers' = [k \in CacheKeys |-> NoObject]
  /\ get_agent_with_memory(p, agent_cache', conversation_id[p], effective_user_id[p],
                           agent[p])
  /\ UNCHANGED <<result, llm_context, bedrock_model, session_manager>>

\* a forced rebuild that keeps the session manager of the user
forced_rebuild_agent_only(p) ==
  /\ retrying' = Set(retrying, p, TRUE)
  /\ agent_cache' = [agent_cache EXCEPT ![effective_user_id[p]] = NoObject]
  /\ session_managers' = session_managers
  /\ get_agent_with_memory(p, agent_cache', conversation_id[p], effective_user_id[p],
                           agent[p])
  /\ UNCHANGED <<result, llm_context, bedrock_model, session_manager>>

\* generate_response: the forced rebuild (drop both cache entries, build again)
forced_rebuild(p) ==
  /\ retrying' = Set(retrying, p, TRUE)
  /\ agent_cache' = [agent_cache EXCEPT ![effective_user_id[p]] = NoObject]
  /\ session_managers' = [session_managers EXCEPT ![effective_user_id[p]] = NoObject]
  /\ get_agent_with_memory(p, agent_cache', conversation_id[p], effective_user_id[p],
                           agent[p])
  /\ UNCHANGED <<result, llm_context, bedrock_model, session_manager>>

\* history: one call of the agent, the way it was made and what came back
Invocation(a, path, out) == [agent |-> a.id, path |-> path, out |-> out]

\* what generate_response returns or raises for the outcome of its last agent call
Outcome(out) ==
  CASE out.kind = "ok" -> [kind |-> "text", value |-> ExtractText(out.value)]
    [] out.kind = "ClientError" -> HomeAssistantError(out.value)
    [] OTHER -> RaisedException

\* the executor job comes back; the signature forces a rebuild after every call
executor_job_done_retrying_again(p, out, stored) ==
  /\ pc[p] = "executor_job"
  /\ AgentCall(agent[p], out, stored)
  /\ invoked' = Set(invoked, p, Append(invoked[p], Invocation(agent[p], "executor_job", out)))
  /\ IF out.kind = "ClientError" /\ IsTurnRolesError(out.value)
     THEN forced_rebuild(p)
     ELSE /\ Finish(p, Outcome(out))
          /\ UNCHANGED <<agent_cache, session_managers, retrying>>
  /\ last_op' = <<"request">>
  /\ UNCHANGED <<elsewhere, cfgvars, default_agent, conversation_id, effective_user_id, built,
                 after_clear, nclears>>

(***************************************************************************)
(* generate_response: the executor job that runs the agent comes back      *)
(* (first call, or the retry after a forced rebuild)                       *)
(***************************************************************************)
executor_job_done(p, out, stored) ==
  /\ pc[p] = "executor_job"
  /\ AgentCall(agent[p], out, stored)
  /\ invoked' = Set(invoked, p, Append(invoked[p], Invocation(agent[p], "executor_job", out)))
  /\ IF out.kind = "ClientError" /\ ~retrying[p] /\ IsTurnRolesError(out.value)
     THEN forced_rebuild(p)
     ELSE /\ Finish(p, Outcome(out))
          /\ UNCHANGED <<agent_cache, session_managers, retrying>>
  /\ last_op' = <<"request">>
  /\ UNCHANGED <<elsewhere, cfgvars, default_agent, conversation_id, effective_user_id, built,
                 after_clear, nclears>>

\* an invoke_async branch that has the forced rebuild of the memory branch
invoke_async_done_with_rebuild(p, out, stored) ==
  /\ pc[p] = "invoke_async"
  /\ AgentCall(agent[p], out, stored)
  /\ invoked' = Set(invoked, p, Append(invoked[p], Invocation(agent[p], "invoke_async", out)))
  /\ IF /\ out.kind = "ClientError" /\ ~retrying[p] /\ IsTurnRolesError(out.value)
        /\ conversation_id[p] # None
     THEN forced_rebuild(p)
     ELSE /\ Finish(p, Outcome(out))
          /\ UNCHANGED <<agent_cache, session_managers, retrying>>
  /\ last_op' = <<"request">>
  /\ UNCHANGED <<elsewhere, cfgvars, default_agent, conversation_id, effective_user_id, built,
                 after_clear, nclears>>

(***************************************************************************)
(* generate_response: agent.invoke_async comes back                        *)
(***************************************************************************)
invoke_async_done(p, out, stored) ==
  /\ pc[p] = "invoke_async"
  /\ AgentCall(agent[p], out, stored)
  /\ invoked' = Set(invoked, p, Append(invoked[p], Invocation(agent[p], "invoke_async", out)))
  /\ Finish(p, Outcome(out))
  /\ last_op' = <<"request">>
  /\ UNCHANGED <<elsewhere, cfgvars, cachevars, conversation_id, effective_user_id, retrying,
                 built, after_clear, nclears>>

(***************************************************************************)
(* BedrockAgent.async_process (agent.py 90-110) around generate_response   *)
(***************************************************************************)
\* uuid.uuid4().hex
uuid4_hex == "uuid4"

ConversationResult(id, response) ==
  [kind |-> "ConversationResult", conversation_id |-> id, response |-> response]

\* what async_process gives its caller for the conversation id it was handed and the
\* way async_call_bedrock (generate_response) ended: only HomeAssistantError is caught
async_process(supplied, answer) ==
  LET id == IF supplied # None THEN supplied ELSE uuid4_hex IN
    CASE answer.kind = "text" -> ConversationResult(id, [speech |-> answer.value])
      [] answer.kind = "HomeAssistantError" ->
           ConversationResult(id, [error_code |-> "failed_to_handle",
                                   error |-> answer.args])
      [] OTHER -> answer

(***************************************************************************)
(* Administrative operations                                               *)
(***************************************************************************)
\* clear_user_cache that forgets the session manager cache
clear_user_cache_agent_only(u) ==
  /\ nclears < MaxClears
  /\ nclears' = nclears + 1
  /\ agent_cache' = [agent_cache EXCEPT ![u] = NoObject]
  /\ last_op' = <<"clear_user_cache", u, agent_cache[u].id, session_managers[u].id>>
  /\ UNCHANGED <<elsewhere, cfgvars, session_managers, default_agent, diskvars, pc, locals, result,
                 built, invoked, after_clear>>

\* clear_user_cache that also deletes the user's session directory
clear_user_cache_deleting_files(u) ==
  /\ nclears < MaxClears
  /\ nclears' = nclears + 1
  /\ agent_cache' = [agent_cache EXCEPT ![u] = NoObject]
  /\ session_managers' = [session_managers EXCEPT ![u] = NoObject]
  /\ session_files' = [session_files EXCEPT ![u] = 0]
  /\ last_op' = <<"clear_user_cache", u, agent_cache[u].id, session_managers[u].id>>
  /\ UNCHANGED <<elsewhere, cfgvars, default_agent, mem0_store, pc, locals, result, built, invoked,
                 after_clear>>

\* clear_user_cache that empties the agent cache
clear_user_cache_every_agent(u) ==
  /\ nclears < MaxClears
  /\ nclears' = nclears + 1
  /\ agent_cache' = [k \in CacheKeys |-> NoObject]
  /\ session_managers' = [session_managers EXCEPT ![u] = NoObject]
  /\ last_op' = <<"clear_user_cache", u, agent_cache[u].id, session_managers[u].id>>
  /\ UNCHANGED <<elsewhere, cfgvars, default_agent, diskvars, pc, locals, result, built, invoked,
                 after_clear>>

clear_user_cache(u) ==
  /\ nclears < MaxClears
  /\ nclears' = nclears + 1
  /\ agent_cache' = [agent_cache EXCEPT ![u] = NoObject]
  /\ session_managers' = [session_managers EXCEPT ![u] = NoObject]
  /\ last_op' = <<"clear_user_cache", u, agent_cache[u].id, session_managers[u].id>>
  /\ UNCHANGED <<elsewhere, cfgvars, default_agent, diskvars, pc, locals, result, built, invoked,
                 after_clear>>

\* len() of a cache
CacheLen(cache) == Cardinality({k \in CacheKeys : cache[k] # NoObject})

\* clear_all_cache that forgets the session manager cache
clear_all_cache_agents_only ==
  /\ nclears < MaxClears
  /\ nclears' = nclears + 1
  /\ last_op' = <<"clear_all_cache", CacheLen(agent_cache), CacheLen(session_managers)>>
  /\ agent_cache' = [k \in CacheKeys |-> NoObject]
  /\ UNCHANGED <<elsewhere, cfgvars, session_managers, default_agent, diskvars, pc, locals, result,
                 built, invoked, after_clear>>

clear_all_cache ==
  /\ nclears < MaxClears
  /\ nclears' = nclears + 1
  /\ LET agent_count == CacheLen(agent_cache)
         manager_count == CacheLen(session_managers)
     IN last_op' = <<"clear_all_cache", agent_count, manager_count>>
  /\ agent_cache' = [k \in CacheKeys |-> NoObject]
  /\ session_managers' = [k \in CacheKeys |-> NoObject]
  /\ UNCHANGED <<elsewhere, cfgvars, default_agent, diskvars, pc, locals, result, built, invoked,
                 after_clear>>

clear_conversation_cache(c) ==
  /\ nclears < MaxClears
  /\ nclears' = nclears + 1
  /\ last_op' = <<"clear_conversation_cache">>
  /\ UNCHANGED <<elsewhere, cfgvars, cachevars, diskvars, pc, locals, result, built, invoked,
                 after_clear>>

Next ==
  \/ \E p \in Procs, conv \in Convs \cup {None}, cuid \in CallerUsers \cup {None},
        ctx \in LLMContexts \cup {None} : generate_response(p, conv, cuid, ctx)
  \/ \E p \in Procs, ok \in BOOLEAN : create_bedrock_model_done(p, ok)
  \/ \E p \in Procs, ok \in BOOLEAN : create_session_manager_done(p, ok)
  \/ \E p \in Procs, ok \in BOOLEAN : create_ha_control_tool_done(p, ok)
  \/ \E p \in Procs, ok \in BOOLEAN : create_agent_done(p, ok)
  \/ \E p \in Procs, ok \in BOOLEAN : default_model_done(p, ok)
  \/ \E p \in Procs, ok \in BOOLEAN : default_ha_tool_done(p, ok)
  \/ \E p \in Procs, out \in Outcomes, stored \in BOOLEAN : executor_job_done(p, out, stored)
  \/ \E p \in Procs, out \in Outcomes, stored \in BOOLEAN : invoke_async_done(p, out, stored)
  \/ \E u \in CallerUsers \cup {user_id} : clear_user_cache(u)
  \/ clear_all_cache
  \/ \E c \in Convs : clear_conversation_cache(c)

Spec == Init /\ [][Next]_vars

(***************************************************************************)
(* generate_response when whatever it awaits comes back in the end: the    *)
(* model, session manager, dispatch tool and Agent jobs, and the call of   *)
(* the agent, each return or raise.  The requests are those of the         *)
(* wrapper's own user, so that they share one cache entry, and the calls   *)
(* of the agent end in one of each kind of outcome generate_response tells *)
(* apart.                                                                  *)
(***************************************************************************)
\* user ids the callers hand in
LiveCallers == {None}
\* a reply, the recoverable ClientError, another ClientError, another exception
LiveOutcomes ==
  {o \in Outcomes : o.kind = "ClientError" => o.value.Code = "ValidationException"}

\* request p resumes from its await; enabled exactly while p is suspended
Resume(p) ==
  \/ \E ok \in BOOLEAN : create_bedrock_model_done(p, ok)
  \/ \E ok \in BOOLEAN : create_session_manager_done(p, ok)
  \/ \E ok \in BOOLEAN : create_ha_control_tool_done(p, ok)
  \/ \E ok \in BOOLEAN : create_agent_done(p, ok)
  \/ \E ok \in BOOLEAN : default_model_done(p, ok)
  \/ \E ok \in BOOLEAN : default_ha_tool_done(p, ok)
  \/ \E out \in LiveOutcomes : executor_job_done(p, out, FALSE)
  \/ \E out \in LiveOutcomes : invoke_async_done(p, out, FALSE)

LiveNext ==
  \/ \E p \in Procs, conv \in Convs \cup {None}, cuid \in LiveCallers,
        ctx \in LLMContexts \cup {None} : generate_response(p, conv, cuid, ctx)
  \/ \E p \in Procs, ok \in BOOLEAN : create_bedrock_model_done(p, ok)
  \/ \E p \in Procs, ok \in BOOLEAN : create_session_manager_done(p, ok)
  \/ \E p \in Procs, ok \in BOOLEAN : create_ha_control_tool_done(p, ok)
  \/ \E p \in Procs, ok \in BOOLEAN : create_agent_done(p, ok)
  \/ \E p \in Procs, ok \in BOOLEAN : default_model_done(p, ok)
  \/ \E p \in Procs, ok \in BOOLEAN : default_ha_tool_done(p, ok)
  \/ \E p \in Procs, out \in LiveOutcomes : executor_job_done(p, out, FALSE)
  \/ \E p \in Procs, out \in LiveOutcomes : invoke_async_done(p, out, FALSE)
  \/ clear_user_cache(user_id)
  \/ clear_all_cache

\* every job and call a request awaits returns or raises in the end
LiveSpec == Init /\ [][LiveNext]_vars /\ \A p \in Procs : WF_vars(Resume(p))

(***************************************************************************)
(* The dispatch tool of ha_control_tool.py: create_ha_control_tool loads a *)
(* HAToolRegistry from the providers, then the model calls                 *)
(* homeassistant_control any number of times.                              *)
(***************************************************************************)
\* homeassistant_control: intents_requiring_name
intents_requiring_name ==
  {"HassTurnOn", "HassTurnOff", "HassToggle", "HassGetState", "HassLightSet",
   "HassSetPosition", "HassMediaUnpause", "HassMediaPause", "HassMediaNext",
   "HassMediaPrevious", "HassSetVolume", "HassListAddItem", "HassListRemoveItem"}

\* the names the model may ask for, in the order sorted() gives them
SortedToolNames ==
  <<"GetLiveContext", "HassGetState", "HassLightSet", "HassListAddItem",
    "HassListCompleteItem", "HassListRemoveItem", "HassMediaNext", "HassMediaPause",
    "HassMediaPrevious", "HassMediaUnpause", "HassSetPosition", "HassSetVolume",
    "HassToggle", "HassTurnOff", "HassTurnOn", "NoSuchTool", "movie_night", "sunset">>
ToolNames == Range(SortedToolNames)

\* the prefix test on "Hass" alone
StartsWithHassList_Hass(tool_name) ==
  tool_name \notin {"GetLiveContext", "NoSuchTool", "movie_night", "sunset"}

\* tool_name.startswith("HassList"), over ToolNames
StartsWithHassList(tool_name) ==
  tool_name \in {"HassListAddItem", "HassListCompleteItem", "HassListRemoveItem"}

\* the providers (homeassistant.helpers.llm.API) and the tools of their instances
AssistAPI ==
  [id |-> "assist",
   tools |-> <<"HassTurnOn", "HassTurnOff", "HassListAddItem", "GetLiveContext">>]
ScriptAPI == [id |-> "scripts", tools |-> <<"movie_night", "HassTurnOn">>]
ApiLists == {<<AssistAPI>>, <<AssistAPI, ScriptAPI>>, <<ScriptAPI, AssistAPI>>}

\* the arguments the model supplies to homeassistant_control
DeviceNames == {"", "kitchen light"}
Domains == {"", "light"}
\* brightness: int | None, as a sequence of at most one int
Brightnesses == {<<>>, <<0>>}
Colors == {"", "red"}
Items == {"", "milk"}
Kwargs == {<<>>, [k \in {"area"} |-> "kitchen"]}

\* what ha_tool.async_call comes back with: a dict, something else, or an exception
\* whose text is a sequence of phrases
HandlerOutcomes ==
  { [kind |-> "dict", value |-> [success |-> TRUE]],
    [kind |-> "other", value |-> "done"],
    [kind |-> "raise", value |-> <<"Service not found">>],
    [kind |-> "raise", value |-> <<"Failed to call turn_on", "scene.", "movie_night">>],
    [kind |-> "raise", value |-> <<"Failed to call turn_on", "scene.", "sunset">>],
    [kind |-> "raise", value |-> <<"Failed to call turn_on", "scene.">>] }

\* self.tools_by_name.keys()
RegisteredNames(table) == {n \in DOMAIN table : TRUE}

\* sorted(names)
Sorted(names) == SelectSeq(SortedToolNames, LAMBDA n : n \in names)

\* ", ".join(names)
RECURSIVE JoinComma(_)
JoinComma(names) ==
  IF names = <<>> THEN <<>>
  ELSE IF Len(names) = 1 THEN names
  ELSE <<Head(names), ", ">> \o JoinComma(Tail(names))

\* registration that keeps the tool a name already has
RECURSIVE RegisterTools_keep_first(_, _, _)
RegisterTools_keep_first(table, api_tools, api_id) ==
  IF api_tools = <<>> THEN table
  ELSE LET ha == [name |-> Head(api_tools), api |-> api_id]
           old == RegisteredNames(table)
       IN RegisterTools_keep_first(
            [n \in old \cup {ha.name} |-> IF n \in old THEN table[n] ELSE <<ha, api_id>>],
            Tail(api_tools), api_id)

\* async_load_apis: the tools of one instance registered in order under their names
RECURSIVE RegisterTools(_, _, _)
RegisterTools(table, api_tools, api_id) ==
  IF api_tools = <<>> THEN table
  ELSE LET ha == [name |-> Head(api_tools), api |-> api_id]
           old == RegisteredNames(table)
       IN RegisterTools([n \in old \cup {ha.name} |->
                           IF n = ha.name THEN <<ha, api_id>> ELSE table[n]],
                        Tail(api_tools), api_id)

\* create_ha_control_tool: registry = HAToolRegistry(), then async_load_apis up to its
\* first await
create_ha_control_tool(the_apis, ctx) ==
  /\ reg_apis = the_apis
  /\ reg_llm_context = ctx
  /\ api_instances = {}
  /\ tools_by_name = <<>>
  /\ load_index = 1
  /\ instantiated = <<>>
  /\ reg_pc = IF the_apis = <<>> THEN "ready" ELSE "async_get_api_instance"
  /\ call = NoObject
  /\ handler_calls = <<>>
  /\ tool_result = NoResult

\* the wrapper the tool was created for: device control on, an API configured
ToolInit ==
  /\ StrandsAgentWrapper_init
  /\ enable_memory /\ enable_ha_control /\ apis # <<>>
  /\ RequestsIdle
  /\ NoReply
  /\ NoTask
  /\ \E the_apis \in ApiLists, ctx \in LLMContexts : create_ha_control_tool(the_apis, ctx)

\* a load that lets the provider's exception out
async_get_api_instance_done_fatal(ok) ==
  /\ reg_pc = "async_get_api_instance"
  /\ LET api == reg_apis[load_index] IN
       IF ok
       THEN /\ api_instances' = api_instances \cup {api.id}
            /\ tools_by_name' = RegisterTools(tools_by_name, api.tools, api.id)
       ELSE UNCHANGED <<api_instances, tools_by_name>>
  /\ load_index' = load_index + 1
  /\ instantiated' = Append(instantiated, ok)
  /\ reg_pc' = IF ~ok THEN "raised"
               ELSE IF load_index' > Len(reg_apis) THEN "ready"
               ELSE "async_get_api_instance"
  /\ UNCHANGED <<reg_apis, reg_llm_context, callvars, wrappervars, replyvars, taskvars>>

(***************************************************************************)
(* async_load_apis: api.async_get_api_instance comes back or raises; the   *)
(* loop goes on to the next provider                                       *)
(***************************************************************************)
async_get_api_instance_done(ok) ==
  /\ reg_pc = "async_get_api_instance"
  /\ LET api == reg_apis[load_index] IN
       IF ok
       THEN /\ api_instances' = api_instances \cup {api.id}
            /\ tools_by_name' = RegisterTools(tools_by_name, api.tools, api.id)
       ELSE UNCHANGED <<api_instances, tools_by_name>>
  /\ load_index' = load_index + 1
  /\ instantiated' = Append(instantiated, ok)
  /\ reg_pc' = IF load_index' > Len(reg_apis) THEN "ready" ELSE "async_get_api_instance"
  /\ UNCHANGED <<reg_apis, reg_llm_context, callvars, wrappervars, replyvars, taskvars>>

\* homeassistant_control: the message of the missing-name error
RequiresNameError(tool_name) ==
  <<"Intent '", tool_name, "' requires a 'name' parameter. ">>
  \o (IF StartsWithHassList(tool_name)
      THEN <<"For shopping list intents, provide the list name (e.g., name='Shopping List').">>
      ELSE <<"For device control, provide the device name (e.g., name='kitchen light').">>)

\* the argument map with "if brightness:" for "if brightness is not None:"
BuildToolArgs_truthy_brightness(c) ==
  LET supplied == {k \in {"name", "domain", "color", "item"} : c[k] # ""}
                  \cup (IF c.brightness # <<>> /\ c.brightness[1] # 0
                        THEN {"brightness"} ELSE {})
  IN [k \in DOMAIN c.kwargs \cup supplied |->
        IF k \in {"name", "domain", "color", "item"} /\ k \in supplied THEN c[k]
        ELSE IF k = "brightness" /\ k \in supplied THEN c.brightness[1]
        ELSE c.kwargs[k]]

\* homeassistant_control: tool_args = {**kwargs} plus every argument that is supplied
BuildToolArgs(c) ==
  LET supplied == {k \in {"name", "domain", "color", "item"} : c[k] # ""}
                  \cup (IF c.brightness # <<>> THEN {"brightness"} ELSE {})
  IN [k \in DOMAIN c.kwargs \cup supplied |->
        IF k \in {"name", "domain", "color", "item"} /\ k \in supplied THEN c[k]
        ELSE IF k = "brightness" /\ k \in supplied THEN c.brightness[1]
        ELSE c.kwargs[k]]

\* the not-found error without the list of registered names
NotFoundError_bare(tool_name) == <<"Tool '", tool_name, "' not found.">>

\* async_call_tool: the error for a name that is not registered
NotFoundError(tool_name) ==
  <<"Tool '", tool_name, "' not found. Available tools: ">>
  \o JoinComma(Sorted(RegisteredNames(tools_by_name)))

\* a scene name that is never extracted
SceneName_unknown(error_msg) == "unknown"

\* async_call_tool: re.search(r"scene\.(\w+)", error_msg), "unknown" without a match
SceneName(error_msg) ==
  LET at == CHOOSE i \in DOMAIN error_msg :
              /\ error_msg[i] = "scene."
              /\ \A j \in 1..(i - 1) : error_msg[j] # "scene."
  IN IF at < Len(error_msg) THEN error_msg[at + 1] ELSE "unknown"

\* the handler's exception let out of async_call_tool
HandlerError_reraise(error_msg) == [raised |-> error_msg]

\* async_call_tool: what the except branch returns for the handler's exception
HandlerError(error_msg) ==
  IF Contains(error_msg, "Failed to call turn_on") /\ Contains(error_msg, "scene.")
  THEN IF SceneName(error_msg) \in RegisteredNames(tools_by_name)
       THEN [error |-> <<"Cannot use HassTurnOn for scenes. Use tool_name='",
                         SceneName(error_msg), "' directly instead.">>]
       ELSE [error |-> <<"Scenes cannot be activated with HassTurnOn. Try using the scene name as tool_name directly, or check available tools with GetLiveContext.">>]
  ELSE [error |-> error_msg]

(***************************************************************************)
(* homeassistant_control is called by the model: the name check, the       *)
(* argument map, then async_call_tool up to the await of the handler.  No  *)
(* call changes the registry, so the model follows the tool up to the end  *)
(* of one call: every later call finds what this one finds.                *)
(***************************************************************************)
homeassistant_control(tool_name, name, domain, brightness, color, item, kwargs) ==
  /\ reg_pc = "ready"
  /\ call = NoObject
  /\ call' = [tool_name |-> tool_name, name |-> name, domain |-> domain,
              brightness |-> brightness, color |-> color, item |-> item,
              kwargs |-> kwargs]
  /\ IF tool_name \in intents_requiring_name /\ name = ""
     THEN /\ tool_result' = [error |-> RequiresNameError(tool_name)]
          /\ handler_calls' = <<>>
          /\ reg_pc' = "ready"
     ELSE IF tool_name \notin RegisteredNames(tools_by_name)
     THEN /\ tool_result' = [error |-> NotFoundError(tool_name)]
          /\ handler_calls' = <<>>
          /\ reg_pc' = "ready"
     ELSE /\ tool_result' = NoResult
          /\ handler_calls' =
               <<[tool |-> tools_by_name[tool_name][1],
                  api_id |-> tools_by_name[tool_name][2],
                  tool_name |-> tool_name,
                  tool_args |-> BuildToolArgs(call'),
                  llm_context |-> reg_llm_context,
                  outcome |-> NoResult]>>
          /\ reg_pc' = "async_call"
  /\ UNCHANGED <<registryvars_but_pc, wrappervars, replyvars, taskvars>>

(***************************************************************************)
(* async_call_tool: ha_tool.async_call comes back or raises                *)
(***************************************************************************)
async_call_done(out) ==
  /\ reg_pc = "async_call"
  /\ tool_result' =
       CASE out.kind = "dict" -> out.value
         [] out.kind = "other" -> [result |-> Str(out.value)]
         [] OTHER -> HandlerError(out.value)
  /\ handler_calls' = [handler_calls EXCEPT ![1].outcome = out]
  /\ reg_pc' = "ready"
  /\ UNCHANGED <<registryvars_but_pc, call, wrappervars, replyvars, taskvars>>

ToolNext ==
  \/ \E ok \in BOOLEAN : async_get_api_instance_done(ok)
  \/ \E tool_name \in ToolNames, name \in DeviceNames, domain \in Domains,
        brightness \in Brightnesses, color \in Colors, item \in Items,
        kwargs \in Kwargs :
        homeassistant_control(tool_name, name, domain, brightness, color, item, kwargs)
  \/ \E out \in HandlerOutcomes : async_call_done(out)

ToolSpec == ToolInit /\ [][ToolNext]_vars

(***************************************************************************)
(* The text extraction of generate_response on its own                     *)
(* (strands_wrapper.py 677-689), for every reply of a bounded shape        *)
(***************************************************************************)
\* longest list of content blocks of a reply
MaxBlocks == 3
\* content blocks: text (the empty text included) and a tool use
ContentBlocks ==
  { [text |-> <<"Hello">>], [text |-> <<"there">>], [text |-> <<>>], [toolUse |-> "t1"] }
BlockLists == UNION { [1..n -> ContentBlocks] : n \in 0..MaxBlocks }
\* replies: a message with content blocks, a message without the content key, an empty
\* message, and a reply without the message attribute
AgentResults ==
  { [message |-> [content |-> blocks]] : blocks \in BlockLists }
    \cup { [message |-> [role |-> "assistant"]], [message |-> NoObject],
           [stop_reason |-> "end_turn"] }

ExtractInit ==
  /\ StrandsAgentWrapper_init
  /\ RequestsIdle
  /\ NoRegistry
  /\ NoTask
  /\ agent_result \in AgentResults
  /\ reply = NoResult

\* generate_response, from the reply of the agent to the returned text
extract_text ==
  /\ reply = NoResult
  /\ reply' = [kind |-> "text", value |-> ExtractText(agent_result)]
  /\ UNCHANGED <<wrappervars, registryvars, callvars, agent_result, taskvars>>

ExtractNext == extract_text

ExtractSpec == ExtractInit /\ [][ExtractNext]_vars

(***************************************************************************)
(* The cognitive task service: CognitiveTaskService.async_handle_cognitive_task *)
(* (services.py 52-86) with get_simple_agent (strands_wrapper.py 276-294) and   *)
(* ImageProcessor (image_processor.py).  The call is a coroutine: an action is  *)
(* the code between two awaited executor jobs; the agent itself is called       *)
(* synchronously, agent(prompt_content), in the step that loaded the last image *)
(***************************************************************************)
\* longest list of image files, and of image URLs, of a call
MaxImages == 1
\* the model id the service passes on when the call names none
default_param_model_id == "us.anthropic.claude-sonnet-4-20250514-v1:0"
ModelOverrides == {"override_model"}

\* image files a call can name, with what the checks of load_image_from_file find:
\* is_allowed_path, Path.exists, mimetypes.guess_type, and the format PIL reads
ImageFiles ==
  { [path |-> "/config/www/snapshot.jpg", allowed |-> TRUE, exists |-> TRUE,
     mime |-> "image/jpeg", format |-> "JPEG"],
    [path |-> "/etc/secret.png", allowed |-> FALSE, exists |-> TRUE,
     mime |-> "image/png", format |-> "PNG"],
    [path |-> "/config/www/missing.png", allowed |-> TRUE, exists |-> FALSE,
     mime |-> "image/png", format |-> "PNG"],
    [path |-> "/config/www/notes.txt", allowed |-> TRUE, exists |-> TRUE,
     mime |-> "text/plain", format |-> None],
    [path |-> "/config/www/snapshot", allowed |-> TRUE, exists |-> TRUE,
     mime |-> None, format |-> "JPEG"] }
\* image URLs a call can name, with what mimetypes.guess_type finds
ImageUrls ==
  { [url |-> "http://camera/snapshot.jpg", mime |-> "image/jpeg", format |-> "JPEG"],
    [url |-> "http://camera/index.html", mime |-> "text/html", format |-> None] }
\* what urlopen can come back with
UrlOutcomes == {"ok", "HTTPError", "URLError"}

ImageLists(images) == UNION { [1..n -> images] : n \in 0..MaxImages }
\* call.data, as COGNITIVE_TASK_SCHEMA lets it through
CallData ==
  [prompt : {"describe this image"},
   model_id : ModelOverrides \cup {None},
   image_filenames : ImageLists(ImageFiles),
   image_urls : ImageLists(ImageUrls)]

\* mime_type.startswith("image")
StartsWithImage(mime) == mime \in {"image/jpeg", "image/png", "image/gif", "image/webp"}

\* an ephemeral agent that is given a session manager of the wrapper's user
SimpleAgent_session_backed(model) ==
  [id |-> 1,
   agent_id |-> None,
   model |-> model,
   tools |-> <<>>,
   system_prompt |-> <<[part |-> "base", text |-> base_prompt]>>,
   session_manager |-> FileSessionManager(1, user_id),
   messages |-> 0]

\* get_simple_agent: Agent(model=bedrock_model, system_prompt=self.system_prompt or "")
SimpleAgent(model) ==
  [id |-> 1,
   agent_id |-> None,
   model |-> model,
   tools |-> <<>>,
   system_prompt |-> <<[part |-> "base", text |-> base_prompt]>>,
   session_manager |-> NoObject,
   messages |-> 0]

\* the HomeAssistantError the image processor raises, with the exception it came from
\* (in the messages ' stands for the backquote)
ImageError(message, cause) ==
  [kind |-> "HomeAssistantError", args |-> message, cause |-> cause]

\* load_image_from_file, the checks before the image is opened: the message of the
\* error raised, or nothing
FileError(f) ==
  IF ~f.allowed
  THEN <<"Cannot read '", f.path, "', no access to path; ",
         "'allowlist_external_dirs' may need to be adjusted in 'configuration.yaml'">>
  ELSE IF ~f.exists THEN <<"'", f.path, "' does not exist">>
  ELSE IF f.mime = None \/ ~StartsWithImage(f.mime) THEN <<"'", f.path, "' is not an image">>
  ELSE <<>>

\* load_image_from_url, the check before the URL is opened
UrlError(u) ==
  IF u.mime = None \/ ~StartsWithImage(u.mime) THEN <<"'", u.url, "' is not an image">>
  ELSE <<>>

\* build_converse_prompt_content: the content block of an image
build_converse_prompt_content(image) ==
  [image |-> [format |-> IF image.format \in {"jpeg", "png", "gif", "webp"}
                         THEN image.format ELSE "jpeg"]]

\* what the service returns or raises for the outcome of its agent call
TaskOutcome(out) ==
  CASE out.kind = "ok" -> [kind |-> "response", text |-> Str(out.value)]
    [] out.kind = "ClientError" ->
         [kind |-> "HomeAssistantError",
          args |-> <<"Bedrock Error: ", "'">> \o out.value.Message \o <<"'">>,
          cause |-> out.value]
    [] OTHER -> RaisedException

wrappervars_but_disk == <<cfgvars, cachevars, pc, locals, result, built, invoked,
                          last_op, after_clear, nclears>>

\* the call ends by raising
task_raise(exception) ==
  /\ task_pc' = "done"
  /\ service_response' = exception
  /\ UNCHANGED <<agent_calls, diskvars>>

\* the call, its agent a built, goes on from image i with the content collected so
\* far: the checks of the next image up to the job that opens it, or, after the last
\* image, the agent call and the return
load_next(data, a, i, content, out) ==
  LET files == data.image_filenames
      urls == data.image_urls
  IN /\ image_index' = i
     /\ prompt_content' = content
     /\ IF i <= Len(files)
        THEN IF FileError(files[i]) # <<>>
             THEN task_raise(ImageError(FileError(files[i]), NoObject))
             ELSE /\ task_pc' = "open_file"
                  /\ UNCHANGED <<service_response, agent_calls, diskvars>>
        ELSE IF i <= Len(files) + Len(urls)
        THEN IF UrlError(urls[i - Len(files)]) # <<>>
             THEN task_raise(ImageError(UrlError(urls[i - Len(files)]), NoObject))
             ELSE /\ task_pc' = "urlopen"
                  /\ UNCHANGED <<service_response, agent_calls, diskvars>>
        ELSE /\ agent_calls' = Append(agent_calls, [agent |-> a, content |-> content,
                                                    path |-> "__call__", out |-> out])
             /\ AgentCall(a, out, FALSE)
             /\ service_response' = TaskOutcome(out)
             /\ task_pc' = "done"

\* the service is called: up to the model job of get_simple_agent
async_handle_cognitive_task(data) ==
  /\ task_pc = "idle"
  /\ call_data' = data
  /\ param_model_id' = IF data.model_id # None THEN data.model_id
                       ELSE default_param_model_id
  /\ task_pc' = "get_simple_agent"
  /\ UNCHANGED <<simple_model, simple_agent, prompt_content, image_index, agent_calls,
                 service_response, wrappervars, registryvars, callvars, replyvars>>

\* get_simple_agent: _create_bedrock_model comes back; the agent is made and the
\* service goes on to its images
get_simple_agent_done(ok, out) ==
  /\ task_pc = "get_simple_agent"
  /\ IF ok
     THEN /\ simple_model' = BedrockModel
          /\ simple_agent' = SimpleAgent(BedrockModel)
          /\ load_next(call_data, simple_agent', 1, <<[text |-> call_data.prompt]>>, out)
     ELSE /\ task_raise(RaisedException)
          /\ UNCHANGED <<simple_model, simple_agent, prompt_content, image_index>>
  /\ UNCHANGED <<call_data, param_model_id, wrappervars_but_disk, registryvars, callvars,
                 replyvars>>

\* load_image_from_file: the PIL.Image.open job comes back
open_file_done(ok, out) ==
  /\ task_pc = "open_file"
  /\ IF ok
     THEN load_next(call_data, simple_agent, image_index + 1,
                    Append(prompt_content,
                           build_converse_prompt_content(
                             call_data.image_filenames[image_index])),
                    out)
     ELSE /\ task_raise(RaisedException)
          /\ UNCHANGED <<prompt_content, image_index>>
  /\ UNCHANGED <<call_data, param_model_id, simple_model, simple_agent,
                 wrappervars_but_disk, registryvars, callvars, replyvars>>

\* load_image_from_url: the urlopen job comes back
urlopen_done(opened, out) ==
  /\ task_pc = "urlopen"
  /\ LET u == call_data.image_urls[image_index - Len(call_data.image_filenames)] IN
       CASE opened = "ok" ->
              load_next(call_data, simple_agent, image_index + 1,
                        Append(prompt_content, build_converse_prompt_content(u)), out)
         [] opened = "HTTPError" ->
              /\ task_raise(ImageError(<<"Cannot access file from '", u.url, "'. ",
                                         "Status: '404', Reason: 'Not Found'">>,
                                       [status |-> 404, reason |-> "Not Found"]))
              /\ UNCHANGED <<prompt_content, image_index>>
         [] OTHER ->
              /\ task_raise(RaisedException)
              /\ UNCHANGED <<prompt_content, image_index>>
  /\ UNCHANGED <<call_data, param_model_id, simple_model, simple_agent,
                 wrappervars_but_disk, registryvars, callvars, replyvars>>

TaskInit ==
  /\ StrandsAgentWrapper_init
  /\ RequestsIdle
  /\ NoRegistry
  /\ NoReply
  /\ NoTask

TaskNext ==
  \/ \E data \in CallData : async_handle_cognitive_task(data)
  \/ \E ok \in BOOLEAN, out \in Outcomes : get_simple_agent_done(ok, out)
  \/ \E ok \in BOOLEAN, out \in Outcomes : open_file_done(ok, out)
  \/ \E opened \in UrlOutcomes, out \in Outcomes : urlopen_done(opened, out)

TaskSpec == TaskInit /\ [][TaskNext]_vars

(***************************************************************************)
(* Properties                                                              *)
(***************************************************************************)
\* the request is waiting for its agent call to come back
Invoking(p) == pc[p] \in {"executor_job", "invoke_async"}
\* the cache keys under which an agent of user u is cached
CachedAgentsOf(u) ==
  {k \in CacheKeys : agent_cache[k] # NoObject /\ agent_cache[k].agent_id = u}
\* the step is a call of one of the administrative clears
ClearStep ==
  last_op'[1] \in {"clear_user_cache", "clear_all_cache", "clear_conversation_cache"}
\* the step is the forced-rebuild eviction of request p
ForcedRebuildStep(p) == retrying'[p] /\ ~retrying[p]
\* the signature of the recoverable failure, as the error payload shows it
TurnRolesSignature(out) ==
  /\ out.kind = "ClientError"
  /\ out.value.Code = "ValidationException"
  /\ \E i \in DOMAIN out.value.Message : out.value.Message[i] = TurnRolesPhrase
\* the steps in which request p acts
Acts(p) == pc'[p] # pc[p] \/ invoked'[p] # invoked[p]

\* C1: a session-backed request of a user whose agent is cached gets that identical
\* agent, whatever its conversation id, and constructs no model handle, session
\* handle or agent.
C1_SameUserReusesCachedAgent ==
  [][\A p \in Procs :
       (/\ pc[p] = "idle" /\ pc'[p] # "idle"
        /\ conversation_id'[p] # None
        /\ CachedAgentsOf(effective_user_id'[p]) # {})
       => /\ \E k \in CachedAgentsOf(effective_user_id'[p]) : agent'[p] = agent_cache[k]
          /\ Invoking(p)'
          /\ built'[p] = built[p]
          /\ bedrock_model'[p] = NoObject
          /\ session_manager'[p] = NoObject
          /\ UNCHANGED cachevars]_vars

\* a request in one conversation is calling the agent that a request of the same user
\* in another conversation built, and has built nothing itself
C1_Witness ==
  \E p \in Procs, q \in Procs :
    /\ p # q
    /\ conversation_id[p] # None /\ conversation_id[q] # None
    /\ conversation_id[p] # conversation_id[q]
    /\ effective_user_id[p] = effective_user_id[q]
    /\ Invoking(p) /\ built[p] = 0
    /\ built[q] = 1 /\ invoked[q] # <<>>
    /\ invoked[q][1].agent = agent[p].id

\* C2: in every reachable state the agent cache holds at most one agent per user_id.
C2_OneAgentPerUser ==
  \A u \in UserIds : Cardinality(CachedAgentsOf(u)) <= 1

\* two requests of the same user have each built an agent, and one agent is cached
C2_Witness ==
  \E u \in UserIds :
    /\ \A p \in Procs : effective_user_id[p] = u /\ built[p] >= 1
    /\ Cardinality(CachedAgentsOf(u)) = 1

\* C3: a session-backed request whose first agent call fails with the turn-roles
\* signature retries exactly once against a freshly built agent (unless the rebuild
\* itself fails), returns the extracted text if the retry succeeds and raises if it
\* fails; no request calls the agent a third time.
C3_TurnRolesErrorRetriedOnce ==
  \A p \in Procs :
    /\ Len(invoked[p]) <= 2
    /\ (/\ pc[p] = "done"
        /\ conversation_id[p] # None
        /\ invoked[p] # <<>>
        /\ TurnRolesSignature(invoked[p][1].out))
       => \/ /\ Len(invoked[p]) = 2
             /\ invoked[p][2].agent # invoked[p][1].agent
             /\ built[p] >= 1
             /\ IF invoked[p][2].out.kind = "ok"
                THEN result[p].kind = "text"
                ELSE result[p].kind \in {"HomeAssistantError", "Exception"}
          \/ /\ Len(invoked[p]) = 1
             /\ retrying[p]
             /\ result[p].kind = "Exception"

C5_ClearsKeepPersistedData ==
  [][(ClearStep \/ \E p \in Procs : ForcedRebuildStep(p))
     => /\ UNCHANGED <<session_files, mem0_store>>
        /\ \A k \in CacheKeys :
             /\ agent_cache'[k] \in {agent_cache[k], NoObject}
             /\ session_managers'[k] \in {session_managers[k], NoObject}
        /\ default_agent' = default_agent]_vars

\* a clear has just evicted a user's agent while a transcript of that user and a
\* stored memory exist
C5_Witness ==
  /\ last_op[1] = "clear_user_cache"
  /\ last_op[3] # 0
  /\ session_files[last_op[2]] > 0
  /\ mem0_store > 0

\* C6: clear_user_cache(u) leaves u in neither cache and leaves every other entry of
\* both caches and the default agent unchanged.
C6_ClearUserCacheFrame ==
  [][last_op'[1] = "clear_user_cache"
     => /\ agent_cache'[last_op'[2]] = NoObject
        /\ session_managers'[last_op'[2]] = NoObject
        /\ \A v \in CacheKeys \ {last_op'[2]} :
             /\ agent_cache'[v] = agent_cache[v]
             /\ session_managers'[v] = session_managers[v]
        /\ default_agent' = default_agent]_vars

\* clear_user_cache has just evicted the agent and the session handle of one user
\* while another user's agent and session handle are cached
C6_Witness ==
  /\ last_op[1] = "clear_user_cache"
  /\ last_op[3] # 0 /\ last_op[4] # 0
  /\ \E v \in UserIds \ {last_op[2]} :
       agent_cache[v] # NoObject /\ session_managers[v] # NoObject

\* C7: when clear_all_cache has returned, the agent cache and the session-handle
\* cache are both empty.
C7_ClearAllEmptiesBothCaches ==
  last_op[1] = "clear_all_cache"
  => \A k \in CacheKeys : agent_cache[k] = NoObject /\ session_managers[k] = NoObject

\* clear_all_cache has just returned, having found two agents and two session handles
C7_Witness ==
  /\ last_op[1] = "clear_all_cache"
  /\ last_op[2] = 2 /\ last_op[3] = 2

\* C8: an agent call that fails with a ClientError other than the turn-roles signature
\* ends the request: no retry, no eviction, and the caller gets a HomeAssistantError
\* carrying the provider's message.
C8_OtherClientErrorSurfaced ==
  [][\A p \in Procs :
       (/\ Len(invoked'[p]) = Len(invoked[p]) + 1
        /\ invoked'[p][Len(invoked'[p])].out.kind = "ClientError"
        /\ ~TurnRolesSignature(invoked'[p][Len(invoked'[p])].out))
       => /\ pc'[p] = "done"
          /\ retrying'[p] = retrying[p]
          /\ UNCHANGED cachevars
          /\ result'[p].kind = "HomeAssistantError"
          /\ \A i \in DOMAIN invoked'[p][Len(invoked'[p])].out.value.Message :
               \E j \in DOMAIN result'[p].args :
                 result'[p].args[j] = invoked'[p][Len(invoked'[p])].out.value.Message[i]]_vars

\* a session-backed request has ended on its first agent call with a validation error
\* of another kind, and its user's agent is still cached
C8_Witness ==
  \E p \in Procs :
    /\ pc[p] = "done"
    /\ conversation_id[p] # None
    /\ Len(invoked[p]) = 1
    /\ invoked[p][1].out.kind = "ClientError"
    /\ invoked[p][1].out.value.Code = "ValidationException"
    /\ ~TurnRolesSignature(invoked[p][1].out)
    /\ result[p].kind = "HomeAssistantError"
    /\ agent_cache[effective_user_id[p]] # NoObject

\* C9: with a conversation id generate_response takes the session-backed agent of the
\* effective user (the caller's user id, else the wrapper's) and hands the context to
\* the build; without one it takes the default agent, building it if there is none,
\* and touches neither cache.
C9_AgentSelection ==
  [][/\ \A p \in Procs, conv \in Convs \cup {None}, cuid \in CallerUsers \cup {None},
          ctx \in LLMContexts \cup {None} :
          (pc[p] = "idle" /\ pc'[p] # "idle" /\ generate_response(p, conv, cuid, ctx))
          => IF conv # None
             THEN LET u == IF cuid # None THEN cuid ELSE user_id IN
                  /\ effective_user_id'[p] = u
                  /\ llm_context'[p] = ctx
                  /\ IF agent_cache[u] # NoObject
                     THEN agent'[p] = agent_cache[u] /\ Invoking(p)'
                     ELSE pc'[p] = "create_model"
                  /\ default_agent' = default_agent
             ELSE /\ IF default_agent # NoObject
                     THEN agent'[p] = default_agent /\ Invoking(p)'
                     ELSE pc'[p] = "default_model"
     /\ \A p \in Procs :
          /\ (Acts(p) /\ conversation_id'[p] = None)
             => UNCHANGED <<agent_cache, session_managers>>
          /\ (Acts(p) /\ Invoking(p)')
             => IF conversation_id'[p] # None
                THEN /\ agent'[p].agent_id = effective_user_id'[p]
                     /\ agent'[p].session_manager.session_id = effective_user_id'[p]
                     /\ (built'[p] > 0 /\ has_ha_control(llm_context'[p]))
                        => \E i \in DOMAIN agent'[p].tools :
                             agent'[p].tools[i] = ha_tool(llm_context'[p])
                ELSE /\ agent'[p].agent_id = None
                     /\ agent'[p].session_manager = NoObject]_vars

\* one request with a conversation id and no caller user id is calling the agent of
\* the wrapper's user, another without a conversation id is calling the default agent
C9_Witness ==
  \E p \in Procs, q \in Procs :
    /\ conversation_id[p] # None
    /\ effective_user_id[p] = user_id
    /\ Invoking(p)
    /\ agent[p].agent_id = user_id
    /\ conversation_id[q] = None
    /\ Invoking(q)
    /\ agent[q] = default_agent

\* C10: the agent is called on the worker pool exactly when long-term memory is enabled
\* and a conversation id is present, and through invoke_async otherwise.
C10_InvocationPath ==
  \A p \in Procs :
    /\ pc[p] = "executor_job" => (enable_memory /\ conversation_id[p] # None)
    /\ pc[p] = "invoke_async" => ~(enable_memory /\ conversation_id[p] # None)
    /\ \A i \in DOMAIN invoked[p] :
         invoked[p][i].path = "executor_job"
         <=> (enable_memory /\ conversation_id[p] # None)

\* with memory enabled, a session-backed request waits on the worker pool while a
\* request without conversation id waits on invoke_async
C10_Witness ==
  \E p \in Procs, q \in Procs :
    /\ enable_memory
    /\ pc[p] = "executor_job" /\ conversation_id[p] # None
    /\ pc[q] = "invoke_async" /\ conversation_id[q] = None

\* C11: a request that found no cached agent builds an agent of its own whatever the
\* other request does meanwhile, and when its agent job comes back its agent replaces
\* whatever the cache held for the user, so that the cache holds exactly one agent of
\* that user: the one of the builder that finished last.
C11_RacingBuildersLastWriteWins ==
  [][\A p \in Procs :
       (pc[p] = "create_agent" /\ Invoking(p)')
       => /\ built'[p] = built[p] + 1
          /\ agent'[p].id # agent_cache[effective_user_id[p]].id
          /\ \A q \in Procs \ {p} : agent'[p].id # agent[q].id
          /\ agent_cache'[effective_user_id[p]] = agent'[p]
          /\ CachedAgentsOf(effective_user_id[p])' = {effective_user_id[p]}]_vars

\* two requests of one user, neither of which found a cached agent, have each built an
\* agent; the cache holds the agent of one of them and not that of the other
C11_Witness ==
  \E p \in Procs, q \in Procs :
    /\ nclears = 0
    /\ effective_user_id[p] # None
    /\ effective_user_id[p] = effective_user_id[q]
    /\ Invoking(p) /\ Invoking(q)
    /\ ~retrying[p] /\ ~retrying[q]
    /\ built[p] = 1 /\ built[q] = 1
    /\ agent[p].id # agent[q].id
    /\ agent_cache[effective_user_id[p]] = agent[q]

\* C12: the agent cached under user u was built with agent id u and a session handle
\* of session id u, the session handle cached under u has session id u, and a
\* session-backed request of effective user u is only served by an agent built for u.
C12_AgentNeverSharedAcrossUsers ==
  /\ \A k \in CacheKeys :
       /\ agent_cache[k] # NoObject
          => /\ agent_cache[k].agent_id = k
             /\ agent_cache[k].session_manager.session_id = k
       /\ session_managers[k] # NoObject => session_managers[k].session_id = k
  /\ \A p \in Procs :
       (Invoking(p) /\ conversation_id[p] # None)
       => /\ agent[p].agent_id = effective_user_id[p]
          /\ agent[p].session_manager.session_id = effective_user_id[p]

\* two requests of different users are each calling their user's agent, both cached
C12_Witness ==
  \E p \in Procs, q \in Procs :
    /\ effective_user_id[p] # None /\ effective_user_id[q] # None
    /\ effective_user_id[p] # effective_user_id[q]
    /\ Invoking(p) /\ Invoking(q)
    /\ agent_cache[effective_user_id[p]] = agent[p]
    /\ agent_cache[effective_user_id[q]] = agent[q]

\* the load of the registry is over
Loaded == Len(instantiated) = Len(reg_apis)
\* a call of homeassistant_control has returned
Returned == call # NoObject /\ reg_pc = "ready"
\* the call was rejected for its missing name
MissingName == call.tool_name \in intents_requiring_name /\ call.name = ""

\* C13 as stated: a call with an action name that is not in the merged table invokes
\* no handler and returns an error payload that lists at least one known action name.
C13_UnknownActionListsKnownName ==
  (Returned /\ call.tool_name \notin RegisteredNames(tools_by_name))
  => /\ handler_calls = <<>>
     /\ "error" \in DOMAIN tool_result
     /\ \E n \in RegisteredNames(tools_by_name) : Contains(tool_result.error, n)

\* C13 amended: a call with an action name that is not in the merged table invokes no
\* handler and returns a payload with just an error; unless the call was rejected for
\* its missing name, the error names the action asked for and lists every known
\* action name, which is at least one when the merged table is not empty.
C13_UnknownActionListsEveryKnownName ==
  (Returned /\ call.tool_name \notin RegisteredNames(tools_by_name))
  => /\ handler_calls = <<>>
     /\ DOMAIN tool_result = {"error"}
     /\ ~MissingName
        => /\ Contains(tool_result.error, call.tool_name)
           /\ \A n \in RegisteredNames(tools_by_name) : Contains(tool_result.error, n)

\* an unknown action was asked of a table of several actions, and the error lists one
C13_Witness ==
  /\ Returned
  /\ call.tool_name = "NoSuchTool"
  /\ Cardinality(RegisteredNames(tools_by_name)) > 1
  /\ Contains(tool_result.error, "HassTurnOn")

\* C14: a call of an action of the requires-name set without a name returns an error
\* and invokes no handler; the message is the list variant for HassListAddItem and
\* HassListRemoveItem and the device variant for the other names of the set.
C14_MissingNameRejected ==
  (/\ call # NoObject
   /\ call.name = ""
   /\ call.tool_name \in
        {"HassTurnOn", "HassTurnOff", "HassToggle", "HassGetState", "HassLightSet",
         "HassSetPosition", "HassMediaUnpause", "HassMediaPause", "HassMediaNext",
         "HassMediaPrevious", "HassSetVolume", "HassListAddItem", "HassListRemoveItem"})
  => /\ reg_pc = "ready"
     /\ handler_calls = <<>>
     /\ DOMAIN tool_result = {"error"}
     /\ Contains(tool_result.error, call.tool_name)
     /\ IF call.tool_name \in {"HassListAddItem", "HassListRemoveItem"}
        THEN Contains(tool_result.error,
               "For shopping list intents, provide the list name (e.g., name='Shopping List').")
        ELSE Contains(tool_result.error,
               "For device control, provide the device name (e.g., name='kitchen light').")

\* a registered device action was called without a name, with other arguments given
C14_Witness ==
  /\ Returned
  /\ call.tool_name = "HassTurnOn"
  /\ call.name = "" /\ call.domain = "light"
  /\ "HassTurnOn" \in RegisteredNames(tools_by_name)
  /\ handler_calls = <<>>
  /\ "error" \in DOMAIN tool_result

\* C15: every call of the dispatch tool returns a payload; for an unknown action name,
\* a missing name or an exception of the handler the payload has an error field.
C15_DispatchErrorsReturned ==
  Returned
  => /\ DOMAIN tool_result \in {{"error"}, {"result"}, {"success"}}
     /\ (\/ call.tool_name \notin RegisteredNames(tools_by_name)
         \/ MissingName
         \/ (handler_calls # <<>> /\ handler_calls[1].outcome.kind = "raise"))
        => "error" \in DOMAIN tool_result

\* the handler raised and the call returned an error payload with the handler's text
C15_Witness ==
  /\ Returned
  /\ handler_calls # <<>>
  /\ handler_calls[1].outcome.kind = "raise"
  /\ tool_result = [error |-> <<"Service not found">>]

\* the providers, by position in the list, that gave an instance with a tool named n
Providing(n) ==
  {i \in DOMAIN reg_apis : i <= Len(instantiated) /\ instantiated[i]
                           /\ n \in Range(reg_apis[i].tools)}

\* C16: once loaded, the merged table maps every name to the action and the id of the
\* last provider in the list that gave an instance with an action of that name, and a
\* call of that name invokes the handler of that provider's action only.
C16_LaterProviderWins ==
  Loaded
  => /\ \A n \in RegisteredNames(tools_by_name) :
          \E i \in Providing(n) :
            /\ \A j \in Providing(n) : j <= i
            /\ tools_by_name[n] = <<[name |-> n, api |-> reg_apis[i].id], reg_apis[i].id>>
     /\ \A k \in DOMAIN handler_calls :
          \E i \in Providing(handler_calls[k].tool_name) :
            /\ \A j \in Providing(handler_calls[k].tool_name) : j <= i
            /\ handler_calls[k].tool.api = reg_apis[i].id
            /\ handler_calls[k].api_id = reg_apis[i].id

\* both providers gave an action HassTurnOn, and a call of it went to the second one
C16_Witness ==
  /\ Loaded
  /\ Cardinality(Providing("HassTurnOn")) = 2
  /\ handler_calls # <<>>
  /\ handler_calls[1].tool_name = "HassTurnOn"
  /\ handler_calls[1].api_id = reg_apis[2].id

\* C17: whichever providers fail to give an instance, the load goes through the whole
\* list and ends with the tool ready; the merged table then holds exactly the actions,
\* and the instance table exactly the ids, of the providers that gave an instance.
C17_PartialLoadTolerated ==
  /\ reg_pc \in {"async_get_api_instance", "ready", "async_call"}
  /\ reg_pc = "async_get_api_instance" <=> ~Loaded
  /\ Loaded
     => /\ RegisteredNames(tools_by_name) =
             UNION {Range(reg_apis[i].tools) : i \in {j \in DOMAIN reg_apis : instantiated[j]}}
        /\ api_instances = {reg_apis[i].id : i \in {j \in DOMAIN reg_apis : instantiated[j]}}

\* the first of two providers failed, the second one's actions are loaded and served
C17_Witness ==
  /\ Loaded
  /\ instantiated = <<FALSE, TRUE>>
  /\ RegisteredNames(tools_by_name) = Range(reg_apis[2].tools)
  /\ handler_calls # <<>>

\* the arguments of the running or last call that the model supplied
Supplied ==
  {k \in {"name", "domain", "color", "item"} : call[k] # ""}
  \cup {k \in {"brightness"} : call.brightness # <<>>}
  \cup DOMAIN call.kwargs

\* C18: a call of a loaded action with a non-empty name invokes its handler exactly
\* once, with an argument map that holds exactly the supplied arguments with their
\* values, and when the handler returns, its result is returned without error field.
C18_LoadedActionDispatched ==
  (/\ call # NoObject
   /\ call.tool_name \in RegisteredNames(tools_by_name)
   /\ call.name # "")
  => /\ Len(handler_calls) = 1
     /\ handler_calls[1].tool_name = call.tool_name
     /\ handler_calls[1].tool = tools_by_name[call.tool_name][1]
     /\ DOMAIN handler_calls[1].tool_args = Supplied
     /\ \A k \in Supplied :
          handler_calls[1].tool_args[k] =
            IF k = "brightness" THEN call.brightness[1]
            ELSE IF k \in DOMAIN call.kwargs THEN call.kwargs[k]
            ELSE call[k]
     /\ (reg_pc = "ready" /\ handler_calls[1].outcome.kind = "dict")
        => tool_result = handler_calls[1].outcome.value /\ "error" \notin DOMAIN tool_result
     /\ (reg_pc = "ready" /\ handler_calls[1].outcome.kind = "other")
        => DOMAIN tool_result = {"result"}

\* HassTurnOn was called with name "kitchen light" and domain "light" and nothing else;
\* the handler got exactly these two and its result came back
C18_Witness ==
  /\ Returned
  /\ call.tool_name = "HassTurnOn"
  /\ call.name = "kitchen light" /\ call.domain = "light"
  /\ call.brightness = <<>> /\ call.color = "" /\ call.item = "" /\ call.kwargs = <<>>
  /\ Len(handler_calls) = 1
  /\ handler_calls[1].tool_args = [k \in {"name", "domain"} |->
                                     IF k = "name" THEN "kitchen light" ELSE "light"]
  /\ tool_result = [success |-> TRUE]


\* the content blocks of the reply message, none when the reply has no message
ContentOf(response) ==
  IF "message" \in DOMAIN response /\ response.message # NoObject
     /\ "content" \in DOMAIN response.message
  THEN response.message.content ELSE <<>>
\* the positions of the blocks tagged as text, in order
TextPositions(blocks) == {i \in DOMAIN blocks : "text" \in DOMAIN blocks[i]}
\* the text of the text blocks among the first n blocks, one after the other
RECURSIVE Concatenation(_, _)
Concatenation(blocks, n) ==
  IF n = 0 THEN <<>>
  ELSE Concatenation(blocks, n - 1)
       \o (IF n \in TextPositions(blocks) THEN blocks[n].text ELSE <<>>)

\* C19: the text returned for a reply is the text of its text-tagged content blocks,
\* one after the other in the order of the message; when the message has no
\* text-tagged block, or the reply has no message, it is the reply itself turned to text
C19_ReplyTextIsConcatenation ==
  reply # NoResult =>
    LET blocks == ContentOf(agent_result) IN
      /\ reply.kind = "text"
      /\ reply.value = IF TextPositions(blocks) # {}
                       THEN Concatenation(blocks, Len(blocks))
                       ELSE Str(agent_result)

\* a reply with two text blocks around a tool use has been turned to text
C19_Witness ==
  /\ reply # NoResult
  /\ Len(ContentOf(agent_result)) = 3
  /\ TextPositions(ContentOf(agent_result)) = {1, 3}
  /\ reply.value = <<"Hello", "there">>


\* C20 as stated: every finished call of async_process has returned a conversation
\* result that carries the conversation id of the call, also when generate_response
\* failed
C20_ConversationIdAlwaysReturned ==
  \A p \in Procs :
    pc[p] = "done" /\ conversation_id[p] # None =>
      LET returned == async_process(conversation_id[p], result[p]) IN
        /\ returned.kind = "ConversationResult"
        /\ returned.conversation_id = conversation_id[p]

\* C24 as stated: every step that makes a session handle, a session-backed agent or
\* the default agent is the delivery of a worker-pool job that constructed that
\* object, so none of them is constructed on the event loop
C24_ConstructionOnWorkerPool ==
  [][\A p \in Procs :
       Acts(p) =>
         /\ (\E k \in CacheKeys :
               session_managers'[k] \notin {NoObject, session_managers[k]})
            => Awaited(pc[p]) = [on |-> "executor", makes |-> "FileSessionManager"]
         /\ (\E k \in CacheKeys : agent_cache'[k] \notin {NoObject, agent_cache[k]})
            => Awaited(pc[p]) = [on |-> "executor", makes |-> "Agent"]
         /\ default_agent' \notin {NoObject, default_agent}
            => Awaited(pc[p]) = [on |-> "executor", makes |-> "Agent"]]_vars

\* C25 as stated: whenever a session handle is being created or exists, and whenever
\* an agent holding the long-term memory tool is being invoked, both the session
\* storage directory and the long-term-memory storage directory exist
C25_DirectoriesCreatedBeforeFirstUse ==
  LET first_use ==
        \/ \E p \in Procs : pc[p] = "create_session"
        \/ \E k \in CacheKeys : session_managers[k] # NoObject
        \/ \E p \in Procs : Invoking(p) /\ mem0_memory \in Range(agent[p].tools)
  IN first_use => {session_storage_path, memory_storage_path} \subseteq directories

\* the step in which request p, its agent rebuilt, goes on to the retry
RetryStep(p) == retrying[p] /\ pc[p] = "create_agent" /\ pc'[p] = "executor_job"

\* C26: the forced rebuild of a request drops the agent cache entry and the session
\* manager cache entry of its effective user and, in the same step, finds the agent
\* cache empty and starts building, so no other request gets to fill the agent cache
\* in between; the agent the retry is made on is another agent than the one that
\* failed, and its session manager is another one than the failed agent's, one
\* that came out of its creation job after the drop had emptied the cache entry
C26_ForcedRebuildFromScratch ==
  [][\A p \in Procs :
       /\ ForcedRebuildStep(p) =>
            /\ agent_cache'[effective_user_id[p]] = NoObject
            /\ session_managers'[effective_user_id[p]] = NoObject
            /\ pc'[p] = "create_model"
            /\ agent'[p] = agent[p]
       /\ RetryStep(p) =>
            /\ agent'[p].id # agent[p].id
            /\ agent'[p].session_manager # NoObject
            /\ agent'[p].session_manager.id # agent[p].session_manager.id
            /\ agent'[p].session_manager = session_manager[p]]_vars

\* a request is waiting for its retry, made on a second agent it built itself
C26_Witness ==
  \E p \in Procs :
    /\ retrying[p] /\ pc[p] = "executor_job"
    /\ Len(invoked[p]) = 1 /\ built[p] = 2
    /\ agent[p].id # invoked[p][1].agent

\* the step in which request p has built a session-backed agent
SessionBuildStep(p) == built'[p] = built[p] + 1 /\ conversation_id[p] # None
\* the names of the tools of agent a, in order
ToolNamesOf(a) == [i \in DOMAIN a.tools |-> a.tools[i].name]

\* C27: the tool set a session-backed agent is built with holds the long-term memory
\* tool exactly when long-term memory is on and mem0 could be imported, holds the
\* dispatch tool (bound to the context of the build) exactly when device control is
\* on, the list of APIs is not empty and the build was given a request context, and
\* holds nothing else
C27_ToolSetAtBuild ==
  [][\A p \in Procs :
       SessionBuildStep(p) =>
         LET a == agent'[p]
             memory == enable_memory /\ mem0_available
             control == enable_ha_control /\ apis # <<>> /\ llm_context[p] # None
         IN /\ agent_cache'[effective_user_id[p]] = a
            /\ ToolNamesOf(a) = (IF memory THEN <<"mem0_memory">> ELSE <<>>)
                                \o (IF control THEN <<"homeassistant_control">> ELSE <<>>)
            /\ \A i \in DOMAIN a.tools :
                 a.tools[i].name = "homeassistant_control"
                   => a.tools[i].llm_context = llm_context[p]]_vars

\* an agent with both tools is cached
C27_Witness ==
  \E k \in CacheKeys :
    /\ agent_cache[k] # NoObject
    /\ ToolNamesOf(agent_cache[k]) = <<"mem0_memory", "homeassistant_control">>

\* C28: the system prompt a session-backed agent is built with is the base prompt,
\* then the memory instructions naming the effective user id of the building request
\* exactly when long-term memory is on, then the device-control instructions exactly
\* when the dispatch tool is in the tool set of that agent
C28_SystemPromptAtBuild ==
  [][\A p \in Procs :
       SessionBuildStep(p) =>
         LET a == agent'[p]
             dispatch == \E i \in DOMAIN a.tools : a.tools[i].name = "homeassistant_control"
         IN a.system_prompt =
              <<[part |-> "base", text |-> base_prompt]>>
              \o (IF enable_memory
                  THEN <<[part |-> "memory", user_id |-> effective_user_id[p]]>>
                  ELSE <<>>)
              \o (IF dispatch THEN <<[part |-> "ha_control"]>> ELSE <<>>)]_vars

\* the agent cached for caller u1, who is not the wrapper's user, has a prompt of
\* three parts whose memory instructions name u1
C28_Witness ==
  /\ user_id # "u1"
  /\ agent_cache["u1"] # NoObject
  /\ Len(agent_cache["u1"].system_prompt) = 3
  /\ agent_cache["u1"].system_prompt[2] = [part |-> "memory", user_id |-> "u1"]

\* C29 as stated: whenever a request is having its agent called, a dispatch tool of
\* that agent is the one loaded with the context of this very request, so its table
\* was loaded with, and its handlers are called with, that context
C29_ToolLoadedWithRequestContext ==
  \A p \in Procs :
    Invoking(p) =>
      \A i \in DOMAIN agent[p].tools :
        agent[p].tools[i].name = "homeassistant_control"
          => agent[p].tools[i].llm_context = llm_context[p]

\* the step in which request p has built the default agent
DefaultBuildStep(p) == built'[p] = built[p] + 1 /\ conversation_id[p] = None
\* the step in which request p, made without conversation id, starts
DefaultStartStep(p) == pc[p] = "idle" /\ pc'[p] # "idle" /\ conversation_id'[p] = None
\* agent a has neither a session manager nor the long-term memory tool
Ephemeral(a) ==
  /\ a.session_manager = NoObject
  /\ \A i \in DOMAIN a.tools : a.tools[i].name # "mem0_memory"

\* C30 as stated: the default agent is built at most once per wrapper (no request
\* builds one when one is stored), every request without conversation id that starts
\* when one is stored reuses it, and it has no session manager and no memory tool
C30_DefaultAgentBuiltAtMostOnce ==
  [][\A p \in Procs :
       /\ DefaultBuildStep(p) => default_agent = NoObject
       /\ DefaultStartStep(p) /\ default_agent # NoObject
            => agent'[p] = default_agent /\ built'[p] = built[p]
       /\ default_agent' # NoObject => Ephemeral(default_agent')]_vars

\* C30 amended: a request without conversation id that starts when a default agent
\* is stored reuses the stored one and goes straight to the call, building nothing;
\* a request that started before one was stored builds one, once, and stores it over
\* whatever another such request stored meanwhile; a stored default agent is never
\* removed, and it has no session manager and no memory tool
C30_DefaultAgentReusedOnceStored ==
  [][\A p \in Procs :
       /\ DefaultStartStep(p) /\ default_agent # NoObject
            => /\ agent'[p] = default_agent
               /\ pc'[p] = "invoke_async"
               /\ built'[p] = built[p]
       /\ DefaultBuildStep(p)
            => /\ built[p] = 0
               /\ default_agent' = agent'[p]
               /\ default_agent'.id = NewId(p, 2)
       /\ default_agent # NoObject => default_agent' # NoObject
       /\ default_agent' # default_agent => DefaultBuildStep(p) \/ ~Acts(p)
       /\ default_agent' # NoObject => Ephemeral(default_agent')]_vars

\* on a wrapper with long-term memory on, the second request without conversation id
\* is calling the default agent that the first one built
C30_Witness ==
  /\ enable_memory
  /\ conversation_id["r2"] = None /\ pc["r2"] = "invoke_async" /\ built["r2"] = 0
  /\ conversation_id["r1"] = None /\ built["r1"] = 1
  /\ agent["r2"] = default_agent
  /\ default_agent.id = 12
  /\ Ephemeral(default_agent)

\* C21: no step of the cognitive task touches the agent cache, the session manager
\* cache, the default agent or the stored sessions, and the agent it builds and calls
\* has no session manager
C21_TaskUsesNoSessionHandle ==
  [][/\ agent_cache' = agent_cache
     /\ session_managers' = session_managers
     /\ default_agent' = default_agent
     /\ session_files' = session_files
     /\ simple_agent' # NoObject => simple_agent'.session_manager = NoObject
     /\ \A i \in DOMAIN agent_calls' :
          agent_calls'[i].agent.session_manager = NoObject]_vars

\* the task has returned text for a prompt with one local image, its agent called once
C21_Witness ==
  /\ task_pc = "done"
  /\ service_response.kind = "response"
  /\ Len(call_data.image_filenames) = 1 /\ Len(call_data.image_urls) = 0
  /\ Len(agent_calls) = 1
  /\ agent_calls[1].content = <<[text |-> "describe this image"],
                                [image |-> [format |-> "jpeg"]]>>
  /\ \A k \in CacheKeys : agent_cache[k] = NoObject /\ session_managers[k] = NoObject

\* the call was aborted by an error of the image checks: a path that may not be
\* read, a file or URL that is not an image, a URL that cannot be fetched
ValidationFailed ==
  /\ task_pc = "done"
  /\ service_response.kind = "HomeAssistantError"
  /\ service_response.args[1] # "Bedrock Error: "

\* C22 as stated: when the call is aborted by an error of the image checks, no model
\* handle and no agent has been constructed for it and its agent has not been called
C22_NoAgentWorkBeforeValidationError ==
  ValidationFailed =>
    /\ simple_model = NoObject
    /\ simple_agent = NoObject
    /\ agent_calls = <<>>

\* C23 as stated: the agent the task builds uses the model id of the call when the
\* call names one, and the configured model id when it names none
C23_ModelOverrideUsed ==
  simple_agent # NoObject =>
    simple_agent.model.model_id =
      IF call_data.model_id # None THEN call_data.model_id ELSE model_id

\* the handler of the call raised; the text of its exception
HandlerRaised ==
  Returned /\ handler_calls # <<>> /\ handler_calls[1].outcome.kind = "raise"
RaisedText == handler_calls[1].outcome.value
\* the text has the two marks of a scene that HassTurnOn could not turn on
ScenePattern(text) ==
  /\ \E i \in DOMAIN text : text[i] = "Failed to call turn_on"
  /\ \E i \in DOMAIN text : text[i] = "scene."
\* the entity names that follow the first "scene." of the text: one, or none
ScenesNamed(text) ==
  {text[i + 1] : i \in {k \in 1..(Len(text) - 1) :
                          /\ text[k] = "scene."
                          /\ \A j \in 1..(k - 1) : text[j] # "scene."}}

\* C31: when the handler raised, the call returns a payload with just an error: for
\* a text with both "Failed to call turn_on" and "scene.", the hint that names
\* tool_name='<scene>' when the scene named after "scene." is an action of the merged
\* table, and the generic scene hint when it is not or when no name follows; for
\* every other text, the text of the exception as it is
C31_SceneErrorHint ==
  HandlerRaised =>
    /\ DOMAIN tool_result = {"error"}
    /\ IF ScenePattern(RaisedText)
       THEN IF \E s \in ScenesNamed(RaisedText) : s \in DOMAIN tools_by_name
            THEN \E s \in ScenesNamed(RaisedText) :
                   tool_result.error =
                     <<"Cannot use HassTurnOn for scenes. Use tool_name='", s,
                       "' directly instead.">>
            ELSE /\ Len(tool_result.error) = 1
                 /\ \A s \in ToolNames : ~Contains(tool_result.error, s)
       ELSE tool_result.error = RaisedText

\* HassTurnOn raised for scene.movie_night, which is an action of the merged table,
\* and the call returned the hint naming it
C31_Witness ==
  /\ HandlerRaised
  /\ call.tool_name = "HassTurnOn"
  /\ ScenesNamed(RaisedText) = {"movie_night"}
  /\ "movie_night" \in DOMAIN tools_by_name
  /\ tool_result.error[2] = "movie_night"

\* C32 as stated: the cognitive task calls its agent exactly once before it returns
\* text, never more than once, and every call it makes of the agent goes the
\* non-blocking way (invoke_async awaited on the event loop), never as a plain call
\* that keeps the event loop busy until the backend has answered
C32_TaskInvokesWithoutBlocking ==
  /\ Len(agent_calls) <= 1
  /\ (task_pc = "done" /\ service_response.kind = "response") => Len(agent_calls) = 1
  /\ \A i \in DOMAIN agent_calls : agent_calls[i].path = "invoke_async"

\* C33: when the agent of a request that is called with invoke_async (long-term
\* memory off, or no conversation id) comes back with the ValidationException of the
\* incompatible turn roles, that step ends the request: the agent was called once,
\* the error is raised as HomeAssistantError made from it, no cache entry, session
\* manager entry or default agent changes, and nothing is rebuilt or retried
C33_NoRetryWithoutMemory ==
  [][\A p \in Procs :
       (/\ Invoking(p) /\ Acts(p)
        /\ ~enable_memory \/ conversation_id[p] = None
        /\ TurnRolesSignature(invoked'[p][Len(invoked'[p])].out))
       => /\ pc[p] = "invoke_async"
          /\ pc'[p] = "done"
          /\ Len(invoked'[p]) = 1
          /\ result'[p] = HomeAssistantError(invoked'[p][1].out.value)
          /\ ~retrying'[p]
          /\ built'[p] = built[p]
          /\ agent_cache' = agent_cache
          /\ session_managers' = session_managers
          /\ default_agent' = default_agent]_vars

\* with long-term memory off, a session-backed request has ended with the error of
\* the incompatible turn roles after one call, and the agent it called is still cached
C33_Witness ==
  \E p \in Procs :
    /\ ~enable_memory /\ conversation_id[p] # None
    /\ pc[p] = "done"
    /\ result[p].kind = "HomeAssistantError"
    /\ Len(invoked[p]) = 1
    /\ TurnRolesSignature(invoked[p][1].out)
    /\ agent_cache[effective_user_id[p]] # NoObject
    /\ agent_cache[effective_user_id[p]].id = invoked[p][1].agent

\* C34: in every reachable state, clears during suspended builds included, every user
\* id that has a cached agent also has a cached session manager (the keys of the
\* agent cache are keys of the session manager cache)
C34_AgentKeysAreSessionKeys ==
  \A k \in CacheKeys : agent_cache[k] # NoObject => session_managers[k] # NoObject

\* C35: in every reachable state in which a user has both a cached agent and a cached
\* session manager, the cached agent is bound to exactly that session manager, also
\* when two first builds for the user interleave at their awaits
C35_CachedAgentBoundToCachedManager ==
  \A k \in CacheKeys :
    (agent_cache[k] # NoObject /\ session_managers[k] # NoObject)
      => agent_cache[k].session_manager = session_managers[k]

\* C36: an agent is never being called by two requests at the same time: the calls
\* two overlapping session-backed requests of one user make to the cached agent they
\* share (on the executor or with invoke_async) do not overlap
C36_AgentCalledByOneRequestAtATime ==
  \A p, q \in Procs :
    (/\ p # q
     /\ conversation_id[p] # None /\ conversation_id[q] # None
     /\ effective_user_id[p] = effective_user_id[q]
     /\ Invoking(p) /\ Invoking(q))
      => agent[p].id # agent[q].id

\* the suspension points of the build of a session-backed agent
BuildLabels == {"create_model", "create_session", "create_ha_tool", "create_agent"}
\* the step in which request p resumes in its build and does not finish it
UnfinishedBuildStep(p) ==
  /\ pc[p] \in BuildLabels /\ Acts(p)
  /\ built'[p] = built[p]

\* C37: a build of a session-backed agent that fails at any of its steps (model,
\* session manager, dispatch tool or agent construction) leaves the agent cache as it
\* is: none of its steps up to and including the failing one adds an entry for its
\* user or touches the entry of another user
C37_FailedBuildLeavesAgentCache ==
  [][\A p \in Procs :
       /\ UnfinishedBuildStep(p) => agent_cache' = agent_cache
       /\ (pc[p] \in BuildLabels /\ pc'[p] = "done")
            => /\ result'[p] = RaisedException
               /\ built'[p] = built[p]]_vars

\* a build has failed at the construction of the agent, before any call, while the
\* agent another build cached for the same user stays cached
C37_Witness ==
  \E p \in Procs :
    /\ pc[p] = "done" /\ result[p] = RaisedException
    /\ conversation_id[p] # None
    /\ invoked[p] = <<>> /\ built[p] = 0
    /\ agent_cache[effective_user_id[p]] # NoObject

\* the system prompt of agent a holds the instructions for the long-term memory tool
HasMemoryInstructions(a) ==
  \E i \in DOMAIN a.system_prompt : a.system_prompt[i].part = "memory"
\* the long-term memory tool is among the tools of agent a
HasMemoryTool(a) == \E i \in DOMAIN a.tools : a.tools[i].name = mem0_memory.name

\* C38: the system prompt of an agent holds the instructions for the long-term memory
\* tool only if that tool is among the agent's tools, for the session-backed agents
\* and for the default agent generate_response builds
C38_MemoryInstructionsOnlyWithMemoryTool ==
  /\ \A k \in CacheKeys :
       (agent_cache[k] # NoObject /\ HasMemoryInstructions(agent_cache[k]))
         => HasMemoryTool(agent_cache[k])
  /\ (default_agent # NoObject /\ HasMemoryInstructions(default_agent))
       => HasMemoryTool(default_agent)

\* C39: the eviction of the forced rebuild of a request of effective user u removes
\* u's entry of the agent cache and u's entry of the session manager cache and
\* nothing else: the entries of every other user and the default agent are as before
C39_ForcedRebuildEvictsOnlyItsUser ==
  [][\A p \in Procs :
       ForcedRebuildStep(p)
         => /\ agent_cache'[effective_user_id[p]] = NoObject
            /\ session_managers'[effective_user_id[p]] = NoObject
            /\ \A k \in CacheKeys \ {effective_user_id[p]} :
                 /\ agent_cache'[k] = agent_cache[k]
                 /\ session_managers'[k] = session_managers[k]
            /\ default_agent' = default_agent]_vars

\* a request has just made its forced rebuild (it is at the first await of the new
\* build, its user's entries gone) while another user's agent and session manager
\* are still cached
C39_Witness ==
  \E p \in Procs :
    /\ retrying[p] /\ pc[p] = "create_model" /\ built[p] = 1
    /\ agent_cache[effective_user_id[p]] = NoObject
    /\ session_managers[effective_user_id[p]] = NoObject
    /\ \E k \in CacheKeys \ {effective_user_id[p]} :
         agent_cache[k] # NoObject /\ session_managers[k] # NoObject

\* the ways a request ends: a text, HomeAssistantError, or an exception passed on
Completed(p) ==
  /\ pc[p] = "done"
  /\ result[p].kind \in {"text", "HomeAssistantError", "Exception"}

\* C40: when everything a request awaits returns or raises in the end, every request
\* that was started completes, with a text or an error, whatever other requests and
\* cache clears do in between, and it never makes more than two calls of an agent nor
\* builds more than two agents
C40_RequestCompletesWithinTwoCalls ==
  /\ [](\A p \in Procs : Len(invoked[p]) <= 2 /\ built[p] <= 2)
  /\ \A p \in Procs : (pc[p] # "idle") ~> Completed(p)

\* a request has completed with a text after two builds and two calls, the second call
\* on the agent of its forced rebuild, with a cache clear made on the way
C40_Witness ==
  \E p \in Procs :
    /\ Completed(p) /\ result[p].kind = "text"
    /\ Len(invoked[p]) = 2 /\ built[p] = 2
    /\ invoked[p][1].agent # invoked[p][2].agent
    /\ nclears > 0

====
